---------------------------- MODULE Spec2Model ----------------------------
(***************************************************************************)
(* Model of the chess-game analysis core of alpine-chess-social:           *)
(* the dispatch engine (backend/src/unified_analyzer.py), the motif        *)
(* detectors (backend/src/analyzers/*.py) and the batch endpoint in        *)
(* backend/main.py that runs analyze_games and then the selection hooks.   *)
(*                                                                         *)
(* python-chess (board, legality, SAN parsing) is an external library: a   *)
(* move is modelled by the facts the detectors read from the board before  *)
(* the move (moving piece, capture, captured piece, destination, check,    *)
(* material balance, pin) and a game by the facts read from its metadata,  *)
(* its move list and its PGN text.  SAN markers ('x', '+', '#') of a move  *)
(* agree with the move's facts, as in a PGN written by a chess server.     *)
(* Optional values (Python None) are sequences of length at most one.      *)
(***************************************************************************)
EXTENDS Integers, Sequences, FiniteSets, TLC

\* Bounds of the model
MaxGames == 2
MaxPly == 4
MaxCalls == 2

None == <<>>
Some(x) == <<x>>
IsSome(o) == o # <<>>
Val(o) == o[1]

Last(s) == s[Len(s)]

-----------------------------------------------------------------------------
(* Detector identities: the classes registered by main.create_analyzers.   *)

QueenSacrifice == "UnifiedQueenSacrificeAnalyzer"
KnightFork == "UnifiedKnightForkAnalyzer"
BackRankMate == "UnifiedBackRankMateAnalyzer"
SmotheredMate == "UnifiedSmotheredMateAnalyzer"
KingMate == "UnifiedKingMateAnalyzer"
CastleMate == "UnifiedCastleMateAnalyzer"
PawnMate == "UnifiedPawnMateAnalyzer"
KnightPromotionMate == "UnifiedKnightPromotionMateAnalyzer"
QuickestMate == "UnifiedQuickestMateAnalyzer"
EnPassantMate == "UnifiedEnPassantMateAnalyzer"
KnightBishopMate == "UnifiedKnightBishopMateAnalyzer"
KingWalk == "UnifiedKingWalkAnalyzer"
BiggestComeback == "UnifiedBiggestComebackAnalyzer"
ClutchWin == "UnifiedClutchWinAnalyzer"
BestGame == "UnifiedBestGameAnalyzer"
LongestGame == "UnifiedLongestGameAnalyzer"
HungQueen == "UnifiedHungQueenAnalyzer"
CaptureSequence == "UnifiedCaptureSequenceAnalyzer"
Stalemate == "UnifiedStalemateAnalyzer"
Windmill == "UnifiedWindmillAnalyzer"

\* main.ANALYZER_TAGS: every class that has an instance registered
ANALYZER_TAGS ==
    { QueenSacrifice, KnightFork, BackRankMate, SmotheredMate, KingMate,
      CastleMate, PawnMate, KnightPromotionMate, QuickestMate, EnPassantMate,
      KnightBishopMate, KingWalk, BiggestComeback, ClutchWin, BestGame,
      LongestGame, HungQueen, CaptureSequence, Stalemate, Windmill }

\* create_analyzers and register_analyzer: the detectors in the order of
\* the keys of main.ANALYZER_TAGS, which is the order of the hook loops
Registered ==
    << QueenSacrifice, KnightFork, BackRankMate, SmotheredMate, KingMate,
       CastleMate, PawnMate, KnightPromotionMate, QuickestMate, EnPassantMate,
       KnightBishopMate, KingWalk, BiggestComeback, ClutchWin, BestGame,
       LongestGame, HungQueen, CaptureSequence, Stalemate, Windmill >>

MATE_ANALYZERS ==
    { SmotheredMate, KingMate, CastleMate, PawnMate, KnightPromotionMate,
      "UnifiedPromotionMateAnalyzer", QuickestMate, EnPassantMate,
      BackRankMate, KnightBishopMate, KingWalk }

WIN_ANALYZERS ==
    { QueenSacrifice, KnightFork, "UnifiedRookSacrificeAnalyzer", QuickestMate,
      BiggestComeback, ClutchWin, BestGame, LongestGame, KingWalk, Windmill }

DRAW_ANALYZERS == { Stalemate }

-----------------------------------------------------------------------------
(* Game records (game_data.GameData / GameMetadata) as the facts read.     *)
(*   side    which player name equals the tracked username (lower-cased)   *)
(*   result  metadata.result                                               *)
(*   tc      base seconds of metadata.time_control, None when it is empty  *)
(*           or not a number                                               *)
(*   n       len(moves)                                                    *)
(*   last    moves[-1]: piece letter, '#' / '+' marker, destination,       *)
(*           'x' marker, promotion piece; pgn_parser's move pattern keeps   *)
(*           no '+' or '#' on a castling move                              *)
(*   term    the PGN Termination header                                    *)
(*   hash    '#' occurs in the PGN text                                    *)
(*   tail    castling mate found in the last 50 characters of the PGN      *)
(*   elo_low the user's rating header is below 600                         *)
(*   daily   the time control has the daily form moves/seconds             *)
(*   fen     the final position: given by a CurrentPosition or FEN header  *)
(*           (else found by replay), checkmate, material deficit of the    *)
(*           winner, geometric pattern, rook or queen mate, material of    *)
(*           the mated side, who is stalemated, material on the board      *)
(*   clock   the user's last clock annotation, tenths of a second, -1 none *)
(*   rook3   the PGN holds at least three rook-check move texts            *)
(*   walk    king-walk score of the final position (0: does not qualify)   *)
(*   x       the plies whose move text holds 'x'                           *)

\* the text of a move: piece letter, origin square where the text names it
\* to tell apart several pieces that can reach the destination ("" if not),
\* 'x', destination, promotion, '+' and '#'
SanOf(piece, mate, dest) ==
    [piece |-> piece, mate |-> mate, check |-> FALSE, dest |-> dest,
     origin |-> "", capture |-> FALSE, promo |-> "-", ep |-> FALSE]

\* sq in san: the two characters of a square occur in the move text, as its
\* destination or as its origin square
SanHolds(san, sq) == sq = san.dest \/ sq = san.origin

BaseFen ==
    [header |-> TRUE, mate |-> FALSE, deficit |-> 0, pattern |-> "none",
     rook_mate |-> FALSE, enemy_material |-> 0, stalemated |-> "none",
     material |-> 0,
     \* the mated king: on its back rank, attacked by a rook or queen standing
     \* on that rank, its file (0..7), and the files of the rank in front of
     \* it that hold a piece of its own colour
     king_back |-> FALSE, rq_on_rank |-> FALSE, king_file |-> 6,
     own_front |-> {}]

\* str.lower() on the letters that player names are written with here
LowerChar(c) ==
    CASE c = "A" -> "a"
      [] c = "B" -> "b"
      [] OTHER -> c

\* a name is the sequence of its characters
lower(name) == [i \in DOMAIN name |-> LowerChar(name[i])]

\* the name the analyzer is constructed with, and the one it keeps
UserName == <<"A", "b">>
username == lower(UserName)

\* user_is_white, user_is_black and the early return of analyze_game
user_side(white, black) ==
    LET user_is_white == lower(white) = username
        user_is_black == lower(black) = username
    IN IF user_is_white THEN "white"
       ELSE IF user_is_black THEN "black"
       ELSE "none"

\* A TimeControl text is the sequence of its parts between '+' signs; a part
\* is the text of a decimal number, held in tenths, or some other text
NumberText(tenths) == [numeric |-> TRUE, tenths |-> tenths]
OtherText == [numeric |-> FALSE, tenths |-> 0]

\* the base time rounded to the nearest second
base_time_rounded(time_control) ==
    IF time_control = None THEN None
    ELSE LET base == Val(time_control)[1] IN
         IF ~base.numeric THEN None
         ELSE Some((base.tenths + 5) \div 10)

\* int(float(time_control.split('+')[0])), None when the header is absent or
\* the conversion raises ValueError
base_time(time_control) ==
    IF time_control = None THEN None
    ELSE LET base == Val(time_control)[1] IN
         IF ~base.numeric THEN None
         ELSE Some(base.tenths \div 10)

BaseGame ==
    [headers |-> None,
     side |-> "white", result |-> "1-0", tc |-> Some(180), n |-> 1,
     last |-> SanOf("P", FALSE, "e4"), term |-> "none", hash |-> FALSE,
     tail |-> "none", elo_low |-> FALSE, daily |-> FALSE, fen |-> BaseFen,
     clock |-> -1,
     rook3 |-> FALSE, walk |-> 0, x |-> {},
     \* not part of the game: the history keeps the move replayed from it,
     \* and the process_move calls each detector receives
     watch |-> FALSE, log |-> FALSE]

user_is_white_of(g) == g.side = "white"
user_is_black_of(g) == g.side = "black"

\* the recurring test (result == "1-0" and user_is_white) or (result == "0-1" and user_is_black)
UserWon(g) ==
    \/ g.result = "1-0" /\ user_is_white_of(g)
    \/ g.result = "0-1" /\ user_is_black_of(g)

UserLost(g) ==
    \/ g.result = "0-1" /\ user_is_white_of(g)
    \/ g.result = "1-0" /\ user_is_black_of(g)

\* '#' in game_data.moves[-1]
LastHasMate(g) == g.last.mate

-----------------------------------------------------------------------------
(* Moves: the facts of one ply read from chess.Board before the move.      *)
(*   piece    type of board.piece_at(move.from_square)                     *)
(*   capture  board.is_capture(move); victim: type of the piece on         *)
(*            move.to_square ("-" when empty)                              *)
(*   to       move.to_square                                               *)
(*   check    board.gives_check(move), the '+' or '#' of the move text     *)
(*   adv      material balance of the user on the board before the move    *)
(*   pinned   board.is_pinned(user_color, move.from_square)                *)
(*   fork     opponent pieces attacked by the moved knight after the move  *)
(*   trapped  at most two legal replies after the move                     *)
(*   disc     an attacker of the king other than the moved piece           *)
(*   castle   a king move of two files: "no", "short" or "long"            *)
(*   soon     the user's move text among the next four plies takes on the  *)
(*            opponent queen's square                                      *)
(*   from     move.from_square                                             *)
(*   board    the squares that hold a piece before the move, among the     *)
(*            squares the pin tests of the hung-queen detector walk; the   *)
(*            moving piece stands on its from-square                       *)
(*   bpawn    a pawn move whose text starts with the file letter 'b'       *)

Squares == {"d4", "e5"}

QuietMove ==
    [piece |-> "P", capture |-> FALSE, victim |-> "-", to |-> "e5",
     check |-> FALSE, adv |-> 0, pinned |-> FALSE, fork |-> <<>>,
     trapped |-> FALSE, disc |-> FALSE, castle |-> "no", soon |-> FALSE,
     from |-> "e4", board |-> {"e4"}, bpawn |-> FALSE]

\* the MoveContext with the index of the loop as move_number
MoveContext_zero_based(m, k, g) ==
    [move |-> m, move_number |-> k - 1,
     is_user_move |-> ((k % 2 = 1) = user_is_white_of(g)),
     is_opponent_move |-> ((k % 2 = 1) # user_is_white_of(g)),
     game_data |-> g]

\* the MoveContext built by analyze_game for ply k of game g
MoveContext(m, k, g) ==
    [move |-> m, move_number |-> k,
     is_user_move |-> ((k % 2 = 1) = user_is_white_of(g)),
     is_opponent_move |-> ((k % 2 = 1) # user_is_white_of(g)),
     game_data |-> g]

-----------------------------------------------------------------------------
(* UnifiedQueenSacrificeAnalyzer (analyzers/queen_sacrifice.py)            *)
(* Fields as in the class.  A pending sacrifice also carries g_adv,        *)
(* g_pinned and g_qxq: history of the move that raised it (material        *)
(* balance, pin, queen takes queen), copied into the recorded candidate    *)
(* and read by the properties only; g_rejected is the history of the       *)
(* potentials _record_sacrifice dropped: game, move, path and reason.      *)

QueenSacrifice_init ==
    [all_sacrifice_refs |-> <<>>, g_rejected |-> {},
     potential_check_sacrifice |-> None,
     check_sacrifice_recaptured |-> FALSE,
     check_sacrifice_recapture_move |-> 0,
     game_data |-> 0, user_won |-> FALSE, exclude_time_win |-> FALSE,
     elo_too_low |-> FALSE, is_checkmate_win |-> FALSE,
     potential_sacrifice |-> None, sacrifice_found |-> FALSE,
     sacrifice_led_to_mate |-> FALSE, our_queen_was_recaptured |-> FALSE,
     recapture_move_number |-> 0]

QueenSacrifice_start_game(s, g, idx) ==
    [s EXCEPT !.game_data = idx,
              !.user_won = UserWon(g),
              !.exclude_time_win = (g.term = "time"),
              !.elo_too_low = g.elo_low,
              !.is_checkmate_win = LastHasMate(g),
              !.potential_sacrifice = None,
              !.sacrifice_found = FALSE,
              !.sacrifice_led_to_mate = FALSE,
              !.our_queen_was_recaptured = FALSE,
              !.recapture_move_number = 0]

QueenSacrifice_get_piece_value(piece_type) ==
    CASE piece_type = "P" -> 1
      [] piece_type \in {"N", "B"} -> 3
      [] piece_type = "R" -> 5
      [] piece_type = "Q" -> 9
      [] OTHER -> 5

\* moves_to_mate with the window 1..6
QueenSacrifice_moves_to_mate_six(s, c, sacrifice_move_number) ==
    IF s.is_checkmate_win
    THEN LET moves_after_sacrifice ==
                 (c.game_data.n + 1) \div 2 - (sacrifice_move_number + 1) \div 2
         IN IF 1 <= moves_after_sacrifice /\ moves_after_sacrifice <= 6
            THEN moves_after_sacrifice ELSE 0
    ELSE 0

\* moves_to_mate of _record_sacrifice, 0 for None
QueenSacrifice_moves_to_mate(s, c, sacrifice_move_number) ==
    IF s.is_checkmate_win
    THEN LET sacrifice_full_move == (sacrifice_move_number + 1) \div 2
             checkmate_full_move == (c.game_data.n + 1) \div 2
             moves_after_sacrifice == checkmate_full_move - sacrifice_full_move
         IN IF 1 <= moves_after_sacrifice /\ moves_after_sacrifice <= 5
            THEN moves_after_sacrifice ELSE 0
    ELSE 0

\* _record_sacrifice with the material test "more than 5" and no pin test
QueenSacrifice_record_sacrifice_lenient(s, c) ==
    IF ~IsSome(s.potential_sacrifice) THEN s
    ELSE LET p == Val(s.potential_sacrifice) IN
         IF p.material_advantage > 5 THEN [s EXCEPT !.potential_sacrifice = None]
         ELSE LET mtm == QueenSacrifice_moves_to_mate(s, c, p.sacrifice_move_number)
                  ref == [game_data |-> s.game_data,
                          sacrifice_move_number |-> p.sacrifice_move_number,
                          captured_piece_value |-> p.captured_piece_value,
                          is_checkmate_win |-> s.is_checkmate_win,
                          moves_to_mate |-> mtm,
                          g_adv |-> p.g_adv, g_pinned |-> p.g_pinned,
                          g_qxq |-> p.g_qxq]
              IN [s EXCEPT !.all_sacrifice_refs = Append(@, ref),
                           !.sacrifice_found = TRUE,
                           !.sacrifice_led_to_mate = (mtm # 0),
                           !.potential_sacrifice = None]

QueenSacrifice_record_sacrifice(s, c) ==
    IF ~IsSome(s.potential_sacrifice) THEN s
    ELSE LET p == Val(s.potential_sacrifice)
             dropped == [game_data |-> s.game_data,
                         sacrifice_move_number |-> p.sacrifice_move_number,
                         path |-> IF p.captured_piece_value = 0
                                  THEN "check" ELSE "capture",
                         g_adv |-> p.g_adv, g_pinned |-> p.g_pinned]
         IN
         IF p.material_advantage >= 5
         THEN [s EXCEPT !.potential_sacrifice = None,
                        !.g_rejected = @ \cup {dropped}]
         ELSE IF p.queen_pinned
         THEN [s EXCEPT !.potential_sacrifice = None,
                        !.g_rejected = @ \cup {dropped}]
         ELSE LET mtm == QueenSacrifice_moves_to_mate(s, c, p.sacrifice_move_number)
                  ref == [game_data |-> s.game_data,
                          sacrifice_move_number |-> p.sacrifice_move_number,
                          captured_piece_value |-> p.captured_piece_value,
                          is_checkmate_win |-> s.is_checkmate_win,
                          moves_to_mate |-> mtm,
                          g_adv |-> p.g_adv, g_pinned |-> p.g_pinned,
                          g_qxq |-> p.g_qxq]
              IN [s EXCEPT !.all_sacrifice_refs = Append(@, ref),
                           !.sacrifice_found = TRUE,
                           !.sacrifice_led_to_mate = (mtm # 0),
                           !.potential_sacrifice = None]

\* lines 154-218: the check path (queen gives check without capturing, is captured)
QueenSacrifice_check_path(s, c) ==
    LET m == c.move IN
    IF c.is_user_move /\ ~m.capture /\ m.piece = "Q" /\ m.check
    THEN [s EXCEPT !.potential_check_sacrifice =
              Some([sacrifice_move_number |-> c.move_number,
                    queen_square |-> m.to,
                    material_advantage |-> m.adv,
                    queen_pinned |-> m.pinned,
                    g_adv |-> m.adv, g_pinned |-> m.pinned, g_qxq |-> FALSE])]
    ELSE IF c.is_opponent_move /\ IsSome(s.potential_check_sacrifice)
    THEN LET p == Val(s.potential_check_sacrifice) IN
         IF /\ c.move_number = p.sacrifice_move_number + 1
            /\ m.to = p.queen_square /\ m.capture
         THEN [s EXCEPT !.check_sacrifice_recaptured = TRUE,
                        !.check_sacrifice_recapture_move = c.move_number]
         ELSE [s EXCEPT !.potential_check_sacrifice = None]
    ELSE IF /\ c.is_user_move /\ s.check_sacrifice_recaptured
            /\ s.check_sacrifice_recapture_move # 0
            /\ c.move_number = s.check_sacrifice_recapture_move + 1
    THEN IF m.capture /\ m.victim = "Q"
         THEN [s EXCEPT !.potential_check_sacrifice = None,
                        !.check_sacrifice_recaptured = FALSE,
                        !.check_sacrifice_recapture_move = 0]
         ELSE LET s1 == IF IsSome(s.potential_check_sacrifice)
                        THEN LET p == Val(s.potential_check_sacrifice) IN
                             QueenSacrifice_record_sacrifice(
                               [s EXCEPT !.potential_sacrifice =
                                  Some([sacrifice_move_number |-> p.sacrifice_move_number,
                                        captured_square |-> p.queen_square,
                                        captured_piece_value |-> 0,
                                        material_advantage |-> p.material_advantage,
                                        queen_pinned |-> p.queen_pinned,
                                        g_adv |-> p.g_adv, g_pinned |-> p.g_pinned,
                                        g_qxq |-> p.g_qxq])], c)
                        ELSE s
              IN [s1 EXCEPT !.potential_check_sacrifice = None,
                            !.check_sacrifice_recaptured = FALSE,
                            !.check_sacrifice_recapture_move = 0]
    ELSE s

\* lines 128-152: the user's move after the queen was taken back
QueenSacrifice_after_recapture(s, c) ==
    LET m == c.move IN
    IF c.is_user_move /\ s.our_queen_was_recaptured /\ s.recapture_move_number # 0
       /\ c.move_number >= s.recapture_move_number + 1
    THEN IF /\ c.move_number = s.recapture_move_number + 1
            /\ m.capture /\ m.victim = "Q"
         THEN [s EXCEPT !.potential_sacrifice = None,
                        !.our_queen_was_recaptured = FALSE,
                        !.recapture_move_number = 0]
         ELSE [QueenSacrifice_record_sacrifice(s, c) EXCEPT
                        !.our_queen_was_recaptured = FALSE,
                        !.recapture_move_number = 0]
    ELSE QueenSacrifice_check_path(s, c)

\* the opponent's reply counts as taking the queen wherever it lands
QueenSacrifice_opponent_reply_anywhere(s, c) ==
    IF c.is_opponent_move /\ IsSome(s.potential_sacrifice)
    THEN LET p == Val(s.potential_sacrifice) IN
         IF c.move_number = p.sacrifice_move_number + 1
         THEN [s EXCEPT !.our_queen_was_recaptured = TRUE,
                        !.recapture_move_number = c.move_number]
         ELSE QueenSacrifice_after_recapture(
                 [s EXCEPT !.potential_sacrifice = None,
                           !.our_queen_was_recaptured = FALSE], c)
    ELSE QueenSacrifice_after_recapture(s, c)

\* lines 112-126: the opponent's reply to a capture by the queen
QueenSacrifice_opponent_reply(s, c) ==
    LET m == c.move IN
    IF c.is_opponent_move /\ IsSome(s.potential_sacrifice)
    THEN LET p == Val(s.potential_sacrifice) IN
         IF c.move_number = p.sacrifice_move_number + 1
         THEN IF m.to = p.captured_square
              THEN [s EXCEPT !.our_queen_was_recaptured = TRUE,
                             !.recapture_move_number = c.move_number]
              ELSE [s EXCEPT !.potential_sacrifice = None]
         ELSE QueenSacrifice_after_recapture(
                 [s EXCEPT !.potential_sacrifice = None,
                           !.our_queen_was_recaptured = FALSE], c)
    ELSE QueenSacrifice_after_recapture(s, c)

\* a capture by the user's queen raises a potential sacrifice whatever it takes
QueenSacrifice_queen_captures_any(s, c) ==
    LET m == c.move IN
    [s EXCEPT !.potential_sacrifice =
        Some([sacrifice_move_number |-> c.move_number,
              captured_square |-> m.to,
              captured_piece_value |-> QueenSacrifice_get_piece_value(m.victim),
              material_advantage |-> m.adv,
              queen_pinned |-> m.pinned,
              g_adv |-> m.adv, g_pinned |-> m.pinned,
              g_qxq |-> (m.victim = "Q")])]

\* lines 76-110: a capture by the user's queen raises a potential sacrifice
QueenSacrifice_queen_captures(s, c) ==
    LET m == c.move IN
    IF m.victim = "Q" THEN s
    ELSE [s EXCEPT !.potential_sacrifice =
              Some([sacrifice_move_number |-> c.move_number,
                    captured_square |-> m.to,
                    captured_piece_value |->
                        QueenSacrifice_get_piece_value(m.victim),
                    material_advantage |-> m.adv,
                    queen_pinned |-> m.pinned,
                    g_adv |-> m.adv, g_pinned |-> m.pinned,
                    g_qxq |-> (m.victim = "Q")])]

QueenSacrifice_process_move(s, c) ==
    IF ~s.user_won \/ s.exclude_time_win \/ s.elo_too_low \/ s.sacrifice_found
    THEN s
    ELSE IF c.is_user_move /\ c.move.capture /\ c.move.piece = "Q"
    THEN QueenSacrifice_queen_captures(s, c)
    ELSE QueenSacrifice_opponent_reply(s, c)

QueenSacrifice_finish_game(s) ==
    [s EXCEPT !.potential_sacrifice = None,
              !.our_queen_was_recaptured = FALSE,
              !.recapture_move_number = 0,
              !.potential_check_sacrifice = None,
              !.check_sacrifice_recaptured = FALSE,
              !.check_sacrifice_recapture_move = 0]

-----------------------------------------------------------------------------
(* UnifiedKnightForkAnalyzer (analyzers/knight_fork.py)                    *)

\* the values without that of the king
PIECE_VALUES_without_king(piece_type) ==
    CASE piece_type = "P" -> 1
      [] piece_type = "N" -> 3
      [] piece_type = "B" -> 3
      [] piece_type = "R" -> 5
      [] piece_type = "Q" -> 9
      [] OTHER -> 0

PIECE_VALUES(piece_type) ==
    CASE piece_type = "P" -> 1
      [] piece_type = "N" -> 3
      [] piece_type = "B" -> 3
      [] piece_type = "R" -> 5
      [] piece_type = "Q" -> 9
      [] piece_type = "K" -> 100
      [] OTHER -> 0

MIN_FORK_VALUE == 8

RECURSIVE KnightFork_total_value(_)
KnightFork_total_value(attacked_pieces) ==
    IF attacked_pieces = <<>> THEN 0
    ELSE PIECE_VALUES(Head(attacked_pieces))
           + KnightFork_total_value(Tail(attacked_pieces))

KnightFork_init ==
    [all_fork_refs |-> <<>>, game_data |-> 0, user_won |-> FALSE,
     exclude_time_win |-> FALSE, elo_too_low |-> FALSE,
     fork_found_in_game |-> FALSE]

KnightFork_start_game(s, g, idx) ==
    [s EXCEPT !.game_data = idx,
              !.user_won = UserWon(g),
              !.exclude_time_win = (g.term = "time"),
              !.elo_too_low = g.elo_low,
              !.fork_found_in_game = FALSE]

\* process_move without the test of fork_found_in_game
KnightFork_process_move_every_fork(s, c) ==
    IF ~s.user_won \/ s.exclude_time_win \/ s.elo_too_low THEN s
    ELSE IF ~c.is_user_move THEN s
    ELSE IF c.move.piece # "N" THEN s
    ELSE IF Len(c.move.fork) < 2 THEN s
    ELSE IF KnightFork_total_value(c.move.fork) < MIN_FORK_VALUE THEN s
    ELSE [s EXCEPT !.all_fork_refs =
                      Append(@, [game_data |-> s.game_data,
                                 fork_move_number |-> c.move_number,
                                 total_value |-> KnightFork_total_value(c.move.fork),
                                 is_royal_fork |->
                                    (\E i \in 1..Len(c.move.fork) : c.move.fork[i] = "K")]),
                  !.fork_found_in_game = TRUE]

KnightFork_process_move(s, c) ==
    IF ~s.user_won \/ s.exclude_time_win \/ s.elo_too_low THEN s
    ELSE IF ~c.is_user_move THEN s
    ELSE IF s.fork_found_in_game THEN s
    ELSE IF c.move.piece # "N" THEN s
    ELSE IF Len(c.move.fork) < 2 THEN s
    ELSE IF KnightFork_total_value(c.move.fork) < MIN_FORK_VALUE THEN s
    ELSE [s EXCEPT !.all_fork_refs =
                      Append(@, [game_data |-> s.game_data,
                                 fork_move_number |-> c.move_number,
                                 total_value |-> KnightFork_total_value(c.move.fork),
                                 is_royal_fork |->
                                    (\E i \in 1..Len(c.move.fork) : c.move.fork[i] = "K")]),
                  !.fork_found_in_game = TRUE]

KnightFork_finish_game(s) == [s EXCEPT !.fork_found_in_game = FALSE]

-----------------------------------------------------------------------------
(* UnifiedLongestGameAnalyzer (analyzers/longest_game.py)                  *)

LongestGame_init ==
    [longest_game |-> 0, longest_game_ref |-> None, game_data |-> 0,
     game_move_count |-> 0]

LongestGame_start_game(s, g, idx) ==
    [s EXCEPT !.game_data = idx, !.game_move_count = 0]

LongestGame_process_move(s, c) ==
    [s EXCEPT !.game_move_count = @ + 1]

\* finish_game with the comparison >=
LongestGame_finish_game_on_tie(s, g) ==
    LET move_count == g.n IN
    IF move_count >= s.longest_game
    THEN [s EXCEPT !.longest_game = move_count,
                   !.longest_game_ref =
                       Some([game_data |-> s.game_data, move_count |-> move_count])]
    ELSE s

LongestGame_finish_game(s, g) ==
    LET move_count == g.n IN
    IF move_count > s.longest_game
    THEN [s EXCEPT !.longest_game = move_count,
                   !.longest_game_ref =
                       Some([game_data |-> s.game_data, move_count |-> move_count])]
    ELSE s

-----------------------------------------------------------------------------
(* list.sort(key=...): stable, in place.  keys[i] is the key of s[i], a    *)
(* tuple of integers compared lexicographically; reverse=True is the same  *)
(* order as sorting on the negated key, ties keeping their order.          *)

RECURSIVE LexLess(_, _)
LexLess(a, b) ==
    IF a = <<>> \/ b = <<>> THEN FALSE
    ELSE IF Head(a) < Head(b) THEN TRUE
    ELSE IF Head(a) > Head(b) THEN FALSE
    ELSE LexLess(Tail(a), Tail(b))

\* an unstable insertion: p goes before the elements with an equal key
RECURSIVE InsertBeforeEqual(_, _)
InsertBeforeEqual(sorted, p) ==
    IF sorted = <<>> THEN <<p>>
    ELSE IF ~LexLess(Head(sorted)[1], p[1]) THEN <<p>> \o sorted
    ELSE <<Head(sorted)>> \o InsertBeforeEqual(Tail(sorted), p)

\* p goes after every element whose key is not greater
RECURSIVE InsertSorted(_, _)
InsertSorted(sorted, p) ==
    IF sorted = <<>> THEN <<p>>
    ELSE IF LexLess(p[1], Head(sorted)[1]) THEN <<p>> \o sorted
    ELSE <<Head(sorted)>> \o InsertSorted(Tail(sorted), p)

RECURSIVE SortPairs(_)
SortPairs(ps) ==
    IF ps = <<>> THEN <<>>
    ELSE InsertSorted(SortPairs(SubSeq(ps, 1, Len(ps) - 1)), ps[Len(ps)])

list_sort(s, keys) ==
    LET sorted == SortPairs([i \in 1..Len(s) |-> <<keys[i], s[i]>>])
    IN [i \in 1..Len(s) |-> sorted[i][2]]

-----------------------------------------------------------------------------
(* Detectors that look only at the finished game                           *)

\* the parity test "last move was the user's" on len(moves)
UserMadeLastMove(g) ==
    IF user_is_white_of(g) THEN g.n % 2 = 1 ELSE g.n % 2 = 0

(* UnifiedQuickestMateAnalyzer (analyzers/quickest_mate.py); None is inf   *)
QuickestMate_init ==
    [quickest_mate |-> None, quickest_game_ref |-> None, game_data |-> 0,
     game_ended_in_mate |-> FALSE, game_move_count |-> 0]

QuickestMate_start_game(s, g, idx) ==
    [s EXCEPT !.game_data = idx, !.game_ended_in_mate = FALSE,
              !.game_move_count = 0]

QuickestMate_process_move(s, c) == [s EXCEPT !.game_move_count = @ + 1]

QuickestMate_finish_game(s, g) ==
    IF ~UserWon(g) THEN s
    ELSE IF ~LastHasMate(g) THEN s
    ELSE IF g.last.piece = "Q" /\ SanHolds(g.last, "f7") /\ g.last.mate THEN s
    ELSE IF g.last.piece = "Q" /\ SanHolds(g.last, "f2") /\ g.last.mate THEN s
    ELSE LET move_count == g.n IN
         IF ~IsSome(s.quickest_mate) \/ move_count < Val(s.quickest_mate)
         THEN [s EXCEPT !.quickest_mate = Some(move_count),
                        !.quickest_game_ref =
                            Some([game_data |-> s.game_data,
                                  move_count |-> move_count])]
         ELSE s

(* UnifiedKingMateAnalyzer (analyzers/king_mate.py)                        *)
KingMate_init ==
    [all_findings |-> <<>>, findings |-> <<>>, game_data |-> 0,
     has_checkmate |-> FALSE, last_move_number |-> 0,
     last_move_piece_type |-> "-", last_move_by_user |-> FALSE,
     found_king_mate |-> FALSE]

KingMate_start_game(s, g, idx) ==
    [s EXCEPT !.game_data = idx, !.findings = <<>>,
              !.has_checkmate = g.hash, !.last_move_number = 0,
              !.last_move_piece_type = "-", !.last_move_by_user = FALSE,
              !.found_king_mate = FALSE]

KingMate_process_move(s, c) ==
    [s EXCEPT !.last_move_number = c.move_number,
              !.last_move_piece_type = c.move.piece,
              !.last_move_by_user = c.is_user_move]

KingMate_finish_game(s, g) ==
    IF ~s.has_checkmate THEN s
    ELSE IF ~UserWon(g) THEN s
    ELSE IF s.last_move_number = 0 THEN s
    ELSE IF s.last_move_piece_type # "K" THEN s
    ELSE IF ~s.last_move_by_user THEN s
    ELSE IF ~LastHasMate(g) THEN s
    ELSE IF g.last.piece # "K" THEN s
    ELSE LET final_move_number == s.last_move_number
             \* the finding is built here, with the ratings read from the
             \* game text and the replay window of build_replay_data
             finding == [game_data |-> s.game_data,
                         move_number |-> final_move_number,
                         game_metadata |-> [key_half_move |-> final_move_number]]
         IN [s EXCEPT !.found_king_mate = TRUE,
                      !.findings = Append(@, finding),
                      !.all_findings = Append(@, finding)]

(* UnifiedPawnMateAnalyzer (analyzers/pawn_mate.py)                        *)
PawnMate_init ==
    [all_findings |-> <<>>, game_data |-> 0, has_checkmate |-> FALSE,
     found_pawn_mate |-> FALSE]

PawnMate_start_game(s, g, idx) ==
    [s EXCEPT !.game_data = idx, !.has_checkmate = g.hash,
              !.found_pawn_mate = FALSE]

PawnMate_finish_game(s, g) ==
    IF ~s.has_checkmate THEN s
    ELSE IF ~UserWon(g) THEN s
    ELSE IF ~(g.last.piece = "P" /\ g.last.mate /\ g.last.promo = "-") THEN s
    ELSE IF ~UserMadeLastMove(g) THEN s
    ELSE [s EXCEPT !.found_pawn_mate = TRUE,
                   !.all_findings =
                       Append(@, [game_data |-> s.game_data,
                                  final_move_number |-> g.n])]

(* UnifiedKnightPromotionMateAnalyzer (analyzers/knight_promotion_mate.py) *)
KnightPromotionMate_init ==
    [all_findings |-> <<>>, game_data |-> 0, has_checkmate |-> FALSE,
     found_knight_promo_mate |-> FALSE]

KnightPromotionMate_start_game(s, g, idx) ==
    [s EXCEPT !.game_data = idx, !.has_checkmate = g.hash,
              !.found_knight_promo_mate = FALSE]

KnightPromotionMate_finish_game(s, g) ==
    IF ~s.has_checkmate THEN s
    ELSE IF ~UserWon(g) THEN s
    ELSE IF ~(g.last.promo = "N" /\ g.last.mate) THEN s
    ELSE IF ~UserMadeLastMove(g) THEN s
    ELSE [s EXCEPT !.found_knight_promo_mate = TRUE,
                   !.all_findings =
                       Append(@, [game_data |-> s.game_data,
                                  final_move_number |-> g.n])]

(* UnifiedEnPassantMateAnalyzer (analyzers/en_passant_mate.py)             *)
(* last.ep: the move text is a pawn capture onto the user's sixth rank     *)
(* from an adjacent file, with '#', and replays as an en passant capture   *)
EnPassantMate_init ==
    [all_findings |-> <<>>, game_data |-> 0, has_checkmate |-> FALSE,
     found_en_passant_mate |-> FALSE]

EnPassantMate_start_game(s, g, idx) ==
    [s EXCEPT !.game_data = idx, !.has_checkmate = g.hash,
              !.found_en_passant_mate = FALSE]

EnPassantMate_finish_game(s, g) ==
    IF ~s.has_checkmate THEN s
    ELSE IF ~UserWon(g) THEN s
    ELSE IF ~(g.last.piece = "P" /\ g.last.capture /\ g.last.mate
              /\ g.last.promo = "-" /\ g.last.ep) THEN s
    ELSE IF ~UserMadeLastMove(g) THEN s
    ELSE [s EXCEPT !.found_en_passant_mate = TRUE,
                   !.all_findings =
                       Append(@, [game_data |-> s.game_data,
                                  final_move_number |-> g.n])]

(* UnifiedCastleMateAnalyzer (analyzers/castle_mate.py)                    *)
CastleMate_init ==
    [all_castle_mates |-> <<>>, game_data |-> 0, user_won |-> FALSE,
     found_castle_mate |-> FALSE, has_checkmate |-> FALSE]

CastleMate_start_game(s, g, idx) ==
    [s EXCEPT !.game_data = idx,
              !.user_won = UserWon(g),
              !.found_castle_mate = FALSE,
              !.has_checkmate =
                  IF UserWon(g)
                  THEN IF g.term # "none" THEN g.term = "checkmate"
                       ELSE g.last.mate \/ g.tail # "none"
                  ELSE FALSE]

\* castle_type of finish_game, "" for None; 'O-O#' is a substring of 'O-O-O#'
CastleMate_castle_type(g) ==
    IF g.last.piece = "O-O" /\ ~g.last.mate
    THEN IF g.tail \in {"O-O#", "O-O-O#"} THEN "short" ELSE ""
    ELSE IF g.last.piece = "O-O-O" /\ ~g.last.mate
    THEN IF g.tail = "O-O-O#" THEN "long" ELSE ""
    ELSE ""

CastleMate_finish_game(s, g) ==
    IF ~s.has_checkmate \/ ~s.user_won THEN s
    ELSE IF CastleMate_castle_type(g) # ""
    THEN [s EXCEPT !.all_castle_mates =
                       Append(@, [game_data |-> s.game_data,
                                  castle_type |-> CastleMate_castle_type(g),
                                  move_number |-> g.n]),
                   !.found_castle_mate = TRUE]
    ELSE [s EXCEPT !.found_castle_mate = FALSE]

(* UnifiedSmotheredMateAnalyzer (analyzers/smothered_mate.py)              *)
SmotheredMate_init ==
    [all_findings |-> <<>>, findings |-> <<>>, game_data |-> 0,
     has_knight_checkmate |-> FALSE, last_move_number |-> 0,
     last_move_piece |-> "-", last_move_by_user |-> FALSE,
     found_smothered_mate |-> FALSE]

SmotheredMate_start_game(s, g, idx) ==
    [s EXCEPT !.game_data = idx, !.findings = <<>>,
              !.has_knight_checkmate =
                  (g.last.piece = "N" /\ g.last.mate /\ UserWon(g)),
              !.last_move_number = 0, !.last_move_piece = "-",
              !.last_move_by_user = FALSE,
              !.found_smothered_mate = FALSE]

SmotheredMate_process_move(s, c) ==
    IF ~s.has_knight_checkmate THEN s
    ELSE [s EXCEPT !.last_move_number = c.move_number,
                   !.last_move_piece = c.move.piece,
                   !.last_move_by_user = c.is_user_move]

SmotheredMate_finish_game(s, g) ==
    IF ~s.has_knight_checkmate THEN s
    ELSE IF s.last_move_number = 0 THEN s
    ELSE IF s.last_move_piece # "N" THEN s
    ELSE IF ~s.last_move_by_user THEN s
    ELSE IF ~g.fen.mate THEN s
    ELSE IF g.fen.pattern # "smothered" THEN s
    ELSE LET final_move_number == s.last_move_number
             key_half_move == IF final_move_number > 3
                              THEN final_move_number - 3 ELSE 0
             \* the finding is built here, with the ratings read from the
             \* game text and the replay window of build_replay_data
             finding == [game_data |-> s.game_data,
                         final_move_number |-> final_move_number,
                         total_smothered_mates |-> 0,
                         game_metadata |-> [key_half_move |-> key_half_move]]
         IN [s EXCEPT !.found_smothered_mate = TRUE,
                      !.findings = Append(@, finding),
                      !.all_findings = Append(@, finding),
                      !.last_move_number = 0,
                      !.last_move_piece = "-"]

(* UnifiedBackRankMateAnalyzer (analyzers/back_rank_mate.py)               *)
BackRankMate_init ==
    [all_findings |-> <<>>, game_data |-> 0, found_back_rank_mate |-> FALSE]

BackRankMate_start_game(s, g, idx) ==
    [s EXCEPT !.game_data = idx, !.found_back_rank_mate = FALSE]

\* blocked >= total - 2: two empty escape squares tolerated
BackRankMate_is_king_properly_blocked_two_empty(fen) ==
    LET targets == { fen.king_file + o : o \in {-1, 0, 1} } \cap 0..7 IN
    /\ fen.king_back
    /\ Cardinality(targets \cap fen.own_front) >= Cardinality(targets) - 2
    /\ Cardinality(targets) > 0

BackRankMate_is_king_properly_blocked(fen) ==
    IF ~fen.king_back THEN FALSE
    ELSE LET target_files ==
                 { fen.king_file + file_offset : file_offset \in {-1, 0, 1} }
                 \cap 0..7
             escape_squares_total == Cardinality(target_files)
             escape_squares_blocked ==
                 Cardinality(target_files \cap fen.own_front)
         IN /\ escape_squares_blocked >= escape_squares_total - 1
            /\ escape_squares_total > 0

BackRankMate_finish_game(s, g) ==
    IF ~g.hash THEN s
    ELSE IF ~UserWon(g) THEN s
    ELSE IF ~(g.last.piece \in {"R", "Q"} /\ g.last.mate) THEN s
    ELSE IF ~UserMadeLastMove(g) THEN s
    ELSE IF ~g.fen.mate THEN s
    ELSE IF ~g.fen.king_back THEN s
    ELSE IF ~g.fen.rq_on_rank THEN s
    ELSE IF ~BackRankMate_is_king_properly_blocked(g.fen) THEN s
    ELSE [s EXCEPT !.found_back_rank_mate = TRUE,
                   !.all_findings =
                       Append(@, [game_data |-> s.game_data,
                                  final_move_number |-> g.n,
                                  is_rook_mate |-> (g.last.piece = "R"),
                                  enemy_material |-> g.fen.enemy_material])]

(* UnifiedKnightBishopMateAnalyzer (analyzers/knight_bishop_mate.py)       *)
KnightBishopMate_init ==
    [all_findings |-> <<>>, game_data |-> 0, has_checkmate |-> FALSE,
     found_knight_bishop_mate |-> FALSE]

KnightBishopMate_start_game(s, g, idx) ==
    [s EXCEPT !.game_data = idx, !.has_checkmate = g.hash,
              !.found_knight_bishop_mate = FALSE]

KnightBishopMate_finish_game(s, g) ==
    IF ~s.has_checkmate THEN s
    ELSE IF ~UserWon(g) THEN s
    ELSE IF ~g.fen.mate THEN s
    ELSE IF g.fen.pattern # "knb" THEN s
    ELSE [s EXCEPT !.found_knight_bishop_mate = TRUE,
                   !.all_findings =
                       Append(@, [game_data |-> s.game_data,
                                  final_move_number |-> g.n])]

(* UnifiedKingWalkAnalyzer (analyzers/king_walk.py); g.walk is the score   *)
(* square_value * move_mult * hunt_mult * mat_mult of the final position,  *)
(* 0 when one of the early returns of finish_game applies                  *)
KingWalk_max_moves == 35

KingWalk_init ==
    [best_king_walk_ref |-> None, best_score |-> 0, total_king_walks |-> 0,
     game_data |-> 0, current_game_qualifies |-> FALSE,
     current_game_is_king_walk |-> FALSE, current_game_king_walk_score |-> 0]

KingWalk_start_game(s, g, idx) ==
    [s EXCEPT !.game_data = idx,
              !.current_game_is_king_walk = FALSE,
              !.current_game_king_walk_score = 0,
              !.current_game_qualifies =
                  /\ LastHasMate(g)
                  /\ UserWon(g)
                  /\ ~((g.n + 1) \div 2 > KingWalk_max_moves)]

KingWalk_finish_game(s, g) ==
    IF ~s.current_game_qualifies THEN s
    ELSE IF ~g.fen.mate THEN s
    ELSE IF g.walk = 0 THEN s
    ELSE LET score == g.walk
             s1 == [s EXCEPT !.total_king_walks = @ + 1,
                             !.current_game_is_king_walk = TRUE,
                             !.current_game_king_walk_score = score]
         IN IF score > s.best_score
            THEN [s1 EXCEPT !.best_score = score,
                            !.best_king_walk_ref =
                                Some([game_data |-> s.game_data, score |-> score])]
            ELSE s1

(* UnifiedBiggestComebackAnalyzer (analyzers/biggest_comeback.py)          *)
BiggestComeback_init ==
    [biggest_deficit_ref |-> None, biggest_deficit |-> 0,
     current_game_deficit |-> 0, game_data |-> 0]

BiggestComeback_start_game(s, g, idx) ==
    [s EXCEPT !.game_data = idx, !.current_game_deficit = 0]

BiggestComeback_finish_game(s, g) ==
    IF g.result \notin {"1-0", "0-1"} THEN s
    ELSE IF ~UserWon(g) THEN s
    ELSE IF ~LastHasMate(g) THEN s
    ELSE IF ~g.fen.header THEN s
    ELSE LET deficit == g.fen.deficit
             s1 == [s EXCEPT !.current_game_deficit =
                                 IF deficit > 0 THEN deficit ELSE 0]
         IN IF deficit > s.biggest_deficit
            THEN [s1 EXCEPT !.biggest_deficit = deficit,
                            !.biggest_deficit_ref =
                                Some([game_data |-> s.game_data,
                                      final_move_number |-> g.n,
                                      deficit |-> deficit])]
            ELSE s1

(* UnifiedClutchWinAnalyzer (analyzers/clutch_win.py); clock times in      *)
(* tenths of a second, None is inf                                         *)
ClutchWin_init ==
    [clutch_game_ref |-> None, min_time_remaining |-> None, game_data |-> 0]

ClutchWin_start_game(s, g, idx) == [s EXCEPT !.game_data = idx]

ClutchWin_is_daily_game(g) ==
    g.daily \/ (IsSome(g.tc) /\ Val(g.tc) > 3600)

ClutchWin_finish_game(s, g) ==
    IF ClutchWin_is_daily_game(g) THEN s
    ELSE IF ~UserWon(g) THEN s
    ELSE IF ~LastHasMate(g) THEN s
    ELSE IF g.clock < 0 THEN s
    ELSE IF g.clock > 5 THEN s
    ELSE IF ~IsSome(s.min_time_remaining) \/ g.clock < Val(s.min_time_remaining)
    THEN [s EXCEPT !.min_time_remaining = Some(g.clock),
                   !.clutch_game_ref =
                       Some([game_data |-> s.game_data, final_time |-> g.clock])]
    ELSE s

-----------------------------------------------------------------------------
(* UnifiedHungQueenAnalyzer (analyzers/hung_queen.py).  Squares are names, *)
(* "" for None.  The per-game attributes are first assigned by start_game  *)
(* of a lost game or by finish_game; nothing reads them earlier.           *)

HungQueen_init ==
    [all_hung_queen_refs |-> <<>>, game_data |-> 0, user_lost |-> FALSE,
     opponent_queen_square |-> "", user_queen_square |-> "",
     user_king_square |-> "", user_queen_just_captured_square |-> "",
     user_queen_just_moved_to_square |-> "",
     opponent_just_gave_check |-> FALSE, hung_queen_found |-> FALSE]

HungQueen_start_game(s, g, idx) ==
    LET s1 == [s EXCEPT !.game_data = idx, !.user_lost = UserLost(g)] IN
    IF ~UserLost(g) THEN s1
    ELSE [s1 EXCEPT
            !.opponent_queen_square = IF user_is_white_of(g) THEN "d8" ELSE "d1",
            !.user_queen_square = IF user_is_white_of(g) THEN "d1" ELSE "d8",
            !.user_king_square = IF user_is_white_of(g) THEN "e1" ELSE "e8",
            !.user_queen_just_captured_square = "",
            !.user_queen_just_moved_to_square = "",
            !.opponent_just_gave_check = FALSE,
            !.hung_queen_found = FALSE]

\* lines 75-118: positions of the queens and of the user's king
HungQueen_track(s, c) ==
    LET m == c.move
        white == user_is_white_of(c.game_data)
        s1 == IF c.is_opponent_move /\ m.piece = "Q"
              THEN [s EXCEPT !.opponent_queen_square = m.to] ELSE s
        s2 == IF c.is_user_move /\ m.piece = "Q"
              THEN IF ~m.capture
                   THEN [s1 EXCEPT !.user_queen_square = m.to,
                                   !.user_queen_just_moved_to_square = m.to,
                                   !.user_queen_just_captured_square = ""]
                   ELSE [s1 EXCEPT !.opponent_queen_square =
                                       IF m.victim = "Q" THEN "" ELSE @,
                                   !.user_queen_square = m.to,
                                   !.user_queen_just_captured_square = m.to,
                                   !.user_queen_just_moved_to_square = ""]
              ELSE s1
        s3 == IF c.is_user_move /\ m.piece = "K"
              THEN [s2 EXCEPT !.user_king_square =
                       CASE m.castle = "short" -> IF white THEN "g1" ELSE "g8"
                         [] m.castle = "long" -> IF white THEN "c1" ELSE "c8"
                         [] OTHER -> m.to]
              ELSE s2
        s4 == IF c.is_user_move /\ m.piece # "Q"
              THEN [s3 EXCEPT !.user_queen_just_captured_square = "",
                              !.user_queen_just_moved_to_square = ""]
              ELSE s3
    IN IF c.is_user_move /\ m.capture /\ m.victim = "Q"
       THEN [s4 EXCEPT !.opponent_queen_square = ""] ELSE s4

\* the repeated "not a hung queen" exit of the capture branch
HungQueen_dismiss(s) ==
    [s EXCEPT !.user_queen_square = "",
              !.user_queen_just_captured_square = "",
              !.user_queen_just_moved_to_square = "",
              !.opponent_just_gave_check = FALSE]

HungQueen_record_hung_queen(s, c) ==
    IF s.user_queen_square = "" THEN s
    ELSE LET resigned_after ==
                 /\ c.game_data.term = "resign"
                 /\ c.game_data.n - c.move_number <= 2
         IN [s EXCEPT !.all_hung_queen_refs =
                          Append(@, [game_data |-> s.game_data,
                                     move_number |-> (c.move_number + 1) \div 2,
                                     half_move_number |-> c.move_number,
                                     resigned_after |-> resigned_after]),
                      !.hung_queen_found = TRUE]

\* file (ord of the letter, 'a' as 1) and rank of a square name
Coordinates ==
    [a5 |-> <<1, 5>>, c1 |-> <<3, 1>>, c8 |-> <<3, 8>>, d1 |-> <<4, 1>>,
     d4 |-> <<4, 4>>, d8 |-> <<4, 8>>, e1 |-> <<5, 1>>, e4 |-> <<5, 4>>,
     e5 |-> <<5, 5>>, e6 |-> <<5, 6>>, e7 |-> <<5, 7>>, e8 |-> <<5, 8>>,
     f2 |-> <<6, 2>>, f7 |-> <<6, 7>>, g1 |-> <<7, 1>>, g4 |-> <<7, 4>>, g6 |-> <<7, 6>>,
     g8 |-> <<7, 8>>, h5 |-> <<8, 5>>]

square_file(sq) == Coordinates[sq][1]
square_rank(sq) == Coordinates[sq][2]

\* board.piece_at(chess.square(file, rank)) is a piece
piece_at(board, file, rank) ==
    \E sq \in board : square_file(sq) = file /\ square_rank(sq) = rank

Min(a, b) == IF a < b THEN a ELSE b
Max(a, b) == IF a < b THEN b ELSE a
Abs(a) == IF a < 0 THEN 0 - a ELSE a

\* lines 291-363
HungQueen_is_queen_pinned_by_rook(board, queen_square, king_square, rook_from_square) ==
    LET queen_file == square_file(queen_square)
        queen_rank == square_rank(queen_square)
        king_file == square_file(king_square)
        king_rank == square_rank(king_square)
        rook_file == square_file(rook_from_square)
        rook_rank == square_rank(rook_from_square)
        same_file == queen_file = king_file
        same_rank == queen_rank = king_rank
    IN IF ~(same_file \/ same_rank) THEN FALSE
       ELSE IF same_file
       THEN /\ rook_file = queen_file
            /\ Min(king_rank, queen_rank) < rook_rank
            /\ rook_rank < Max(king_rank, queen_rank)
            /\ \A rank \in (Min(king_rank, queen_rank) + 1)
                            ..(Max(king_rank, queen_rank) - 1) :
                   ~piece_at(board, queen_file, rank)
       ELSE /\ rook_rank = queen_rank
            /\ Min(king_file, queen_file) < rook_file
            /\ rook_file < Max(king_file, queen_file)
            /\ \A file \in (Min(king_file, queen_file) + 1)
                            ..(Max(king_file, queen_file) - 1) :
                   ~piece_at(board, file, queen_rank)

\* lines 365-438; the walk from the king towards the queen visits the squares
\* king + i * step for i = 1 .. distance - 1
HungQueen_is_queen_pinned_by_bishop(board, queen_square, king_square, bishop_from_square) ==
    LET queen_file == square_file(queen_square)
        queen_rank == square_rank(queen_square)
        king_file == square_file(king_square)
        king_rank == square_rank(king_square)
        bishop_file == square_file(bishop_from_square)
        bishop_rank == square_rank(bishop_from_square)
        file_step == IF queen_file > king_file THEN 1 ELSE -1
        rank_step == IF queen_rank > king_rank THEN 1 ELSE -1
    IN IF Abs(queen_file - king_file) # Abs(queen_rank - king_rank) THEN FALSE
       ELSE IF Abs(bishop_file - queen_file) # Abs(bishop_rank - queen_rank)
       THEN FALSE
       ELSE /\ Min(king_file, queen_file) < bishop_file
            /\ bishop_file < Max(king_file, queen_file)
            /\ Min(king_rank, queen_rank) < bishop_rank
            /\ bishop_rank < Max(king_rank, queen_rank)
            /\ \A i \in 1..(Abs(queen_file - king_file) - 1) :
                   ~piece_at(board, king_file + i * file_step,
                             king_rank + i * rank_step)

\* the capture branch without the test of opponent_just_gave_check
HungQueen_capture_after_check(s, c) ==
    LET m == c.move IN
    IF m.piece = "Q" THEN HungQueen_dismiss(s)
    ELSE IF s.user_queen_just_captured_square = s.user_queen_square
    THEN HungQueen_dismiss(s)
    ELSE IF s.user_queen_just_moved_to_square = s.user_queen_square
    THEN HungQueen_dismiss(s)
    ELSE IF s.opponent_queen_square = "" THEN HungQueen_dismiss(s)
    ELSE IF m.soon THEN HungQueen_dismiss(s)
    ELSE HungQueen_record_hung_queen(s, c)

\* lines 121-247: the opponent takes on the square of the user's queen
HungQueen_capture(s, c) ==
    LET m == c.move IN
    IF m.piece = "Q" THEN HungQueen_dismiss(s)
    ELSE IF s.opponent_just_gave_check THEN HungQueen_dismiss(s)
    ELSE IF s.user_queen_just_captured_square = s.user_queen_square
    THEN HungQueen_dismiss(s)
    ELSE IF s.user_queen_just_moved_to_square = s.user_queen_square
    THEN HungQueen_dismiss(s)
    ELSE IF s.opponent_queen_square = "" THEN HungQueen_dismiss(s)
    ELSE IF m.soon THEN HungQueen_dismiss(s)
    ELSE IF /\ s.user_king_square # "" /\ m.piece = "R"
            /\ HungQueen_is_queen_pinned_by_rook(
                   m.board, s.user_queen_square, s.user_king_square, m.from)
    THEN HungQueen_dismiss(s)
    ELSE IF /\ s.user_king_square # "" /\ m.piece # "R"
            /\ (m.piece = "B" \/ m.bpawn)
            /\ HungQueen_is_queen_pinned_by_bishop(
                   m.board, s.user_queen_square, s.user_king_square, m.from)
    THEN HungQueen_dismiss(s)
    ELSE HungQueen_record_hung_queen(s, c)

HungQueen_process_move(s, c) ==
    IF ~s.user_lost \/ s.hung_queen_found THEN s
    ELSE LET m == c.move
             t == HungQueen_track(s, c)
         IN IF /\ c.is_opponent_move /\ t.user_queen_square # ""
               /\ m.capture /\ m.to = t.user_queen_square
            THEN HungQueen_capture(t, c)
            ELSE IF c.is_opponent_move
            THEN [t EXCEPT !.opponent_just_gave_check =
                              IF m.check THEN TRUE
                              ELSE IF ~(t.user_queen_square # ""
                                        /\ m.to = t.user_queen_square)
                                   THEN FALSE ELSE @,
                           !.user_queen_just_captured_square = "",
                           !.user_queen_just_moved_to_square = ""]
            ELSE t

HungQueen_finish_game(s) ==
    [s EXCEPT !.user_queen_square = "", !.opponent_queen_square = "",
              !.user_king_square = "",
              !.user_queen_just_captured_square = "",
              !.user_queen_just_moved_to_square = "",
              !.opponent_just_gave_check = FALSE,
              !.hung_queen_found = FALSE]

-----------------------------------------------------------------------------
(* UnifiedWindmillAnalyzer (analyzers/windmill.py).  An element of         *)
(* windmill_sequence keeps half_move, dest ("" for the king's replies),    *)
(* is_capture and is_discovered.                                           *)

MIN_CAPTURES == 2
MIN_DISCOVERED_CHECKS == 1

Windmill_init ==
    [all_windmill_refs |-> <<>>, game_data |-> 0, skip_game |-> FALSE,
     windmill_sequence |-> <<>>, return_square |-> "",
     windmill_found |-> FALSE]

Windmill_start_game(s, g, idx) ==
    [s EXCEPT !.game_data = idx, !.skip_game = ~g.rook3,
              !.windmill_sequence = <<>>, !.return_square = "",
              !.windmill_found = FALSE]

\* the test of _check_and_record_windmill with one capture being enough
Windmill_is_valid_one_capture(seq) ==
    /\ Len(seq) >= 3
    /\ Len(SelectSeq(seq, LAMBDA e : e.dest # "")) >= 2
    /\ Len(SelectSeq(seq, LAMBDA e : e.dest # "" /\ e.is_capture)) >= 1
    /\ Len(SelectSeq(seq, LAMBDA e : e.dest # "" /\ e.is_discovered))
          >= MIN_DISCOVERED_CHECKS

Windmill_rook_moves(seq) == SelectSeq(seq, LAMBDA e : e.dest # "")
Windmill_total_captures(seq) ==
    Len(SelectSeq(Windmill_rook_moves(seq), LAMBDA e : e.is_capture))
Windmill_discovered_checks(seq) ==
    Len(SelectSeq(Windmill_rook_moves(seq), LAMBDA e : e.is_discovered))

\* the test shared by _check_and_record_windmill and finish_game
Windmill_is_valid(seq) ==
    /\ Len(seq) >= 3
    /\ Len(Windmill_rook_moves(seq)) >= 2
    /\ ~(Windmill_total_captures(seq) < MIN_CAPTURES
         \/ Windmill_discovered_checks(seq) < MIN_DISCOVERED_CHECKS)

Windmill_ref(s) ==
    [game_data |-> s.game_data,
     start_half_move |-> s.windmill_sequence[1].half_move,
     sequence |-> s.windmill_sequence,
     captures |-> Windmill_total_captures(s.windmill_sequence)]

Windmill_check_and_record_windmill(s) ==
    IF Windmill_is_valid(s.windmill_sequence)
    THEN [s EXCEPT !.all_windmill_refs = Append(@, Windmill_ref(s)),
                   !.windmill_found = TRUE]
    ELSE s

Windmill_is_rook_check(c) ==
    c.is_user_move /\ c.move.piece = "R" /\ c.move.check

Windmill_is_king_move(c) == c.is_opponent_move /\ c.move.piece = "K"

Windmill_process_move(s, c) ==
    IF s.skip_game \/ s.windmill_found THEN s
    ELSE IF Windmill_is_rook_check(c)
    THEN IF ~c.move.trapped
         THEN IF s.windmill_sequence # <<>>
              THEN [Windmill_check_and_record_windmill(s) EXCEPT
                       !.windmill_sequence = <<>>, !.return_square = ""]
              ELSE s
         ELSE LET e == [half_move |-> c.move_number - 1, dest |-> c.move.to,
                        is_capture |-> c.move.capture,
                        is_discovered |-> c.move.disc]
              IN IF s.windmill_sequence # <<>>
                 THEN [s EXCEPT !.windmill_sequence = Append(@, e)]
                 ELSE [s EXCEPT !.return_square = c.move.to,
                                !.windmill_sequence = <<e>>]
    ELSE IF Windmill_is_king_move(c) /\ s.windmill_sequence # <<>>
    THEN [s EXCEPT !.windmill_sequence =
                       Append(@, [half_move |-> c.move_number - 1, dest |-> "",
                                  is_capture |-> c.move.capture,
                                  is_discovered |-> FALSE])]
    ELSE IF s.windmill_sequence # <<>> /\ ~Windmill_is_king_move(c)
    THEN [Windmill_check_and_record_windmill(s) EXCEPT
             !.windmill_sequence = <<>>, !.return_square = ""]
    ELSE s

Windmill_finish_game(s) ==
    LET s1 == IF Windmill_is_valid(s.windmill_sequence)
              THEN [s EXCEPT !.all_windmill_refs = Append(@, Windmill_ref(s))]
              ELSE s
    IN [s1 EXCEPT !.windmill_sequence = <<>>, !.return_square = "",
                  !.windmill_found = FALSE]

-----------------------------------------------------------------------------
(* UnifiedCaptureSequenceAnalyzer (analyzers/capture_sequence.py).  g.x is *)
(* the set of plies whose move text holds 'x'.                             *)

CaptureSequence_init ==
    [all_sequence_refs |-> <<>>, longest_sequence |-> 0, game_data |-> 0,
     sequence_length_this_game |-> 0]

CaptureSequence_start_game(s, g, idx) ==
    [s EXCEPT !.game_data = idx, !.sequence_length_this_game = 0]

\* the loop of finish_game over moves i..n; r holds max_length, max_start,
\* current_length, current_start (0 for None)
RECURSIVE CaptureSequence_scan(_, _, _)
CaptureSequence_scan(g, i, r) ==
    IF i > g.n
    THEN IF r.current_length > r.max_length
         THEN [r EXCEPT !.max_length = r.current_length,
                        !.max_start = r.current_start]
         ELSE r
    ELSE IF i \in g.x
    THEN CaptureSequence_scan(g, i + 1,
            [r EXCEPT !.current_start = IF r.current_length = 0 THEN i ELSE @,
                      !.current_length = @ + 1])
    ELSE CaptureSequence_scan(g, i + 1,
            [max_length |-> IF r.current_length > r.max_length
                            THEN r.current_length ELSE r.max_length,
             max_start |-> IF r.current_length > r.max_length
                           THEN r.current_start ELSE r.max_start,
             current_length |-> 0, current_start |-> 0])

CaptureSequence_finish_game(s, g) ==
    IF g.x = {} THEN [s EXCEPT !.sequence_length_this_game = 0]
    ELSE LET r == CaptureSequence_scan(g, 1,
                     [max_length |-> 0, max_start |-> 0,
                      current_length |-> 0, current_start |-> 0])
             s1 == [s EXCEPT !.sequence_length_this_game = r.max_length]
         IN IF r.max_length > 0 /\ r.max_start # 0
            THEN [s1 EXCEPT !.all_sequence_refs =
                                Append(@, [game_data |-> s.game_data,
                                           start_move |-> r.max_start,
                                           sequence_length |-> r.max_length]),
                            !.longest_sequence =
                                IF r.max_length > @ THEN r.max_length ELSE @]
            ELSE s1

-----------------------------------------------------------------------------
(* UnifiedStalemateAnalyzer (analyzers/stalemate.py)                       *)

Stalemate_init ==
    [max_material_stalemate_ref |-> None, max_material |-> 0, game_data |-> 0]

Stalemate_start_game(s, g, idx) == [s EXCEPT !.game_data = idx]

Stalemate_finish_game(s, g) ==
    IF g.result # "1/2-1/2" THEN s
    ELSE IF g.term # "stalemate" THEN s
    ELSE IF ~g.fen.header THEN s
    ELSE IF g.fen.stalemated # g.side THEN s
    ELSE IF g.fen.material > 0 /\ g.fen.material > s.max_material
    THEN [s EXCEPT !.max_material = g.fen.material,
                   !.max_material_stalemate_ref =
                       Some([game_data |-> s.game_data,
                             final_move_number |-> g.n,
                             total_material |-> g.fen.material])]
    ELSE s

-----------------------------------------------------------------------------
(* UnifiedBestGameAnalyzer (analyzers/best_game.py): the hooks the engine  *)
(* calls.  best_game_score None is -inf.                                   *)

\* the keys config.get is asked for with a number as value
PointKeys ==
    {"smothered_mate", "castle_mate", "pawn_mate", "windmill", "hung_queen",
     "en_passant_mate", "knight_promotion_mate", "back_rank_mate",
     "knight_bishop_mate", "checkmate_win"}

\* the dict _load_config returns when no config file exists; points[k] is
\* None for a key the dict does not hold, a list of thresholds is empty
\* and a section is absent when the dict has no such key
DefaultConfig ==
    [points |-> [k \in PointKeys |->
                    CASE k = "smothered_mate" -> Some(50)
                      [] k = "castle_mate" -> Some(50)
                      [] k = "pawn_mate" -> Some(40)
                      [] k = "windmill" -> Some(25)
                      [] k = "hung_queen" -> Some(-5)
                      [] OTHER -> None],
     capture_sequence |-> Some([base_points |-> 10, per_capture |-> 2]),
     biggest_comeback |-> <<>>,
     game_ends_before_moves |-> <<>>,
     bullet_penalty |-> None,
     mating_piece_bonus |-> None,
     sacrifice_comeback_bonus |-> <<>>,
     material_deficit_penalty |-> None,
     elo_threshold |-> None]

\* config.get(key, default) on a numeric key
config_get(config, key, default) ==
    IF IsSome(config.points[key]) THEN Val(config.points[key]) ELSE default

BestGame_init ==
    [best_game_score |-> None, best_game_ref |-> None, all_game_refs |-> <<>>,
     other_analyzers |-> {}, config |-> DefaultConfig,
     user_average_elo |-> None, game_data |-> 0,
     current_game_points |-> 0, current_game_breakdown |-> <<>>]

BestGame_start_game(s, g, idx) ==
    [s EXCEPT !.game_data = idx, !.current_game_points = 0,
              !.current_game_breakdown = <<>>]

BestGame_finish_game(s) == s

\* _get_config_key: the config key of a detector class, "" for None
BestGame_get_config_key(d) ==
    CASE d = QueenSacrifice -> "queen_sacrifice"
      [] d = CaptureSequence -> "capture_sequence"
      [] d = KingMate -> "king_mate"
      [] d = SmotheredMate -> "smothered_mate"
      [] d = HungQueen -> "hung_queen"
      [] d = Windmill -> "windmill"
      [] d = KnightFork -> "knight_fork"
      [] d = CastleMate -> "castle_mate"
      [] d = PawnMate -> "pawn_mate"
      [] d = KnightPromotionMate -> "knight_promotion_mate"
      [] d = EnPassantMate -> "en_passant_mate"
      [] d = KingWalk -> "king_walk"
      [] d = BiggestComeback -> "biggest_comeback"
      [] OTHER -> ""

\* the first threshold, from the highest deficit down, the deficit reaches
RECURSIVE TierPoints(_, _)
TierPoints(sorted_thresholds, deficit) ==
    IF sorted_thresholds = <<>> THEN 0
    ELSE IF deficit >= Head(sorted_thresholds).deficit
    THEN Head(sorted_thresholds).points
    ELSE TierPoints(Tail(sorted_thresholds), deficit)

\* the thresholds sorted by deficit without reverse=True
SortedByDeficit_ascending(thresholds) ==
    list_sort(thresholds,
              [i \in 1..Len(thresholds) |-> <<thresholds[i].deficit>>])

SortedByDeficit(thresholds) ==
    list_sort(thresholds,
              [i \in 1..Len(thresholds) |-> <<-thresholds[i].deficit>>])

\* get_game_points of each detector class; the classes that do not define
\* it inherit "return 0"
get_game_points(d, s, config) ==
    CASE d = BackRankMate ->
             IF s.found_back_rank_mate
             THEN config_get(config, "back_rank_mate", 35) ELSE 0
      [] d = SmotheredMate ->
             IF s.found_smothered_mate
             THEN config_get(config, "smothered_mate", 50) ELSE 0
      [] d = CastleMate ->
             IF s.found_castle_mate
             THEN config_get(config, "castle_mate", 50) ELSE 0
      [] d = PawnMate ->
             IF s.found_pawn_mate
             THEN config_get(config, "pawn_mate", 40) ELSE 0
      [] d = KnightPromotionMate ->
             IF s.found_knight_promo_mate
             THEN config_get(config, "knight_promotion_mate", 50) ELSE 0
      [] d = EnPassantMate ->
             IF s.found_en_passant_mate
             THEN config_get(config, "en_passant_mate", 55) ELSE 0
      [] d = KnightBishopMate ->
             IF s.found_knight_bishop_mate
             THEN config_get(config, "knight_bishop_mate", 50) ELSE 0
      [] d = HungQueen ->
             IF s.hung_queen_found
             THEN config_get(config, "hung_queen", -5) ELSE 0
      [] d = Windmill ->
             IF s.windmill_found
             THEN config_get(config, "windmill", 25) ELSE 0
      [] d = KingWalk -> s.current_game_king_walk_score
      [] d = CaptureSequence ->
             IF s.sequence_length_this_game = 0 THEN 0
             ELSE IF IsSome(config.capture_sequence)
             THEN Val(config.capture_sequence).base_points
                  + s.sequence_length_this_game
                    * Val(config.capture_sequence).per_capture
             ELSE 10 + s.sequence_length_this_game * 2
      [] d = BiggestComeback ->
             IF s.current_game_deficit <= 0 THEN 0
             ELSE TierPoints(SortedByDeficit(config.biggest_comeback),
                             s.current_game_deficit)
      [] OTHER -> 0

ScoredAnalyzers == { d \in ANALYZER_TAGS : BestGame_get_config_key(d) # "" }

BreakdownKeys ==
    { BestGame_get_config_key(d) : d \in ScoredAnalyzers }
    \cup {"checkmate_win", "game_speed", "bullet_penalty",
          "mating_piece_bonus", "sacrifice_comeback",
          "material_deficit_penalty"}

RECURSIVE SumOf(_, _)
SumOf(f, keys) ==
    IF keys = {} THEN 0
    ELSE LET k == CHOOSE x \in keys : TRUE IN f[k] + SumOf(f, keys \ {k})

\* the thresholds in the order of the configuration table
BestGame_sorted_thresholds_as_given(thresholds) == thresholds

\* sorted(thresholds, key=lambda x: x["moves"])
BestGame_sorted_thresholds(thresholds) ==
    list_sort(thresholds,
              [i \in 1..Len(thresholds) |-> <<thresholds[i].moves>>])

\* the first threshold, from the lowest move count up, the game ends before
RECURSIVE SpeedPoints(_, _)
SpeedPoints(sorted_thresholds, full_moves) ==
    IF sorted_thresholds = <<>> THEN 0
    ELSE IF full_moves < Head(sorted_thresholds).moves
    THEN Head(sorted_thresholds).points
    ELSE SpeedPoints(Tail(sorted_thresholds), full_moves)

\* _get_mating_piece: from the first letter of the last move
BestGame_get_mating_piece(g) ==
    CASE g.last.piece = "N" -> "knight"
      [] g.last.piece = "B" -> "bishop"
      [] g.last.piece = "R" -> "rook"
      [] g.last.piece = "Q" -> "queen"
      [] OTHER -> ""

\* the points finish_game_scoring finds for each key in game g;
\* other_analyzers holds classes and others[d] is the detector object of
\* class d; a key it adds nothing for is 0
BestGame_breakdown(s, others, g) ==
    LET config == s.config
        user_won == UserWon(g)
        mate_win == user_won /\ LastHasMate(g)
        full_moves == (g.n + 1) \div 2
        has_sacrifice == /\ QueenSacrifice \in s.other_analyzers
                         /\ others[QueenSacrifice].sacrifice_found
        material_deficit == IF BiggestComeback \in s.other_analyzers
                            THEN others[BiggestComeback].current_game_deficit
                            ELSE 0
        piece == BestGame_get_mating_piece(g)
    IN [k \in BreakdownKeys |->
          CASE k = "checkmate_win" ->
                   IF mate_win THEN config_get(config, "checkmate_win", 0) ELSE 0
            [] k = "game_speed" ->
                   IF user_won
                   THEN SpeedPoints(
                          BestGame_sorted_thresholds(
                              config.game_ends_before_moves),
                          full_moves)
                   ELSE 0
            [] k = "bullet_penalty" ->
                   IF /\ IsSome(config.bullet_penalty)
                      /\ Val(config.bullet_penalty).enabled
                      /\ IsSome(g.tc)
                      /\ Val(g.tc) <= Val(config.bullet_penalty).max_base_time_seconds
                   THEN Val(config.bullet_penalty).points ELSE 0
            [] k = "mating_piece_bonus" ->
                   IF IsSome(config.mating_piece_bonus) /\ mate_win /\ piece # ""
                   THEN Val(config.mating_piece_bonus)[piece] ELSE 0
            [] k = "sacrifice_comeback" ->
                   IF user_won /\ has_sacrifice /\ material_deficit > 0
                   THEN LET bonus == TierPoints(
                                SortedByDeficit(config.sacrifice_comeback_bonus),
                                material_deficit)
                        IN IF bonus > 0 THEN bonus ELSE 0
                   ELSE 0
            [] k = "material_deficit_penalty" ->
                   IF user_won /\ ~has_sacrifice /\ material_deficit > 0
                      /\ IsSome(config.material_deficit_penalty)
                      /\ material_deficit
                           >= Val(config.material_deficit_penalty).threshold
                   THEN Val(config.material_deficit_penalty).points ELSE 0
            [] OTHER ->
                   LET d == CHOOSE a \in ScoredAnalyzers :
                                BestGame_get_config_key(a) = k
                   IN IF d \in s.other_analyzers
                      THEN get_game_points(d, others[d], config) ELSE 0]

\* the statements "total_points += points; breakdown[key] = points" that
\* the loop of finish_game_scoring over other_analyzers executes, from
\* position i of the registration order on
RECURSIVE BestGame_analyzer_additions(_, _, _)
BestGame_analyzer_additions(s, others, i) ==
    IF i > Len(Registered) THEN <<>>
    ELSE LET d == Registered[i]
             config_key == BestGame_get_config_key(d)
             rest == BestGame_analyzer_additions(s, others, i + 1)
         IN IF /\ d \in s.other_analyzers /\ d # BestGame /\ config_key # ""
               /\ get_game_points(d, others[d], s.config) # 0
            THEN <<[key |-> config_key,
                    points |-> get_game_points(d, others[d], s.config)]>>
                 \o rest
            ELSE rest

\* the keys finish_game_scoring adds after the loop, in the order of the code
BestGame_bonus_keys ==
    <<"checkmate_win", "game_speed", "bullet_penalty", "mating_piece_bonus",
      "sacrifice_comeback", "material_deficit_penalty">>

\* all additions of finish_game_scoring for game g, in the order of the code
BestGame_additions(s, others, g) ==
    LET b == BestGame_breakdown(s, others, g)
        bonus(k) == IF b[k] # 0 THEN <<[key |-> k, points |-> b[k]]>> ELSE <<>>
    IN BestGame_analyzer_additions(s, others, 1)
       \o bonus(BestGame_bonus_keys[1]) \o bonus(BestGame_bonus_keys[2])
       \o bonus(BestGame_bonus_keys[3]) \o bonus(BestGame_bonus_keys[4])
       \o bonus(BestGame_bonus_keys[5]) \o bonus(BestGame_bonus_keys[6])

\* total_points after the additions
RECURSIVE BestGame_total_points(_)
\* total_points that leaves out the penalties
RECURSIVE BestGame_total_points_without_penalties(_)
BestGame_total_points_without_penalties(additions) ==
    IF additions = <<>> THEN 0
    ELSE (IF Head(additions).points > 0 THEN Head(additions).points ELSE 0)
         + BestGame_total_points_without_penalties(Tail(additions))

BestGame_total_points(additions) ==
    IF additions = <<>> THEN 0
    ELSE Head(additions).points + BestGame_total_points(Tail(additions))

\* the breakdown dict after the additions: the last value assigned to a key
BestGame_breakdown_dict(additions) ==
    [k \in BreakdownKeys |->
        LET at == { i \in DOMAIN additions : additions[i].key = k } IN
        IF at = {} THEN 0
        ELSE additions[CHOOSE i \in at : \A j \in at : j <= i].points]

\* finish_game_scoring with a best-game update that also fires on a tie
BestGame_finish_game_scoring_on_tie(s, others, g) ==
    LET additions == BestGame_additions(s, others, g)
        total_points == BestGame_total_points(additions)
        breakdown == BestGame_breakdown_dict(additions)
        game_ref == [game_data |-> s.game_data, total_points |-> total_points,
                     breakdown |-> breakdown]
        s1 == [s EXCEPT !.all_game_refs = Append(@, game_ref)]
    IN IF ~IsSome(s.best_game_score) \/ total_points >= Val(s.best_game_score)
       THEN [s1 EXCEPT !.best_game_score = Some(total_points),
                       !.best_game_ref = Some(game_ref)]
       ELSE s1

\* finish_game_scoring: the running total and the breakdown of the
\* additions, the stored game_ref and the strict-greater update of the best
\* game
BestGame_finish_game_scoring(s, others, g) ==
    LET additions == BestGame_additions(s, others, g)
        total_points == BestGame_total_points(additions)
        breakdown == BestGame_breakdown_dict(additions)
        game_ref == [game_data |-> s.game_data, total_points |-> total_points,
                     breakdown |-> breakdown]
        s1 == [s EXCEPT !.all_game_refs = Append(@, game_ref)]
    IN IF ~IsSome(s.best_game_score) \/ total_points > Val(s.best_game_score)
       THEN [s1 EXCEPT !.best_game_score = Some(total_points),
                       !.best_game_ref = Some(game_ref)]
       ELSE s1

\* the fallback value taken as it is, whatever the sign of the original
BestGame_new_points_unsigned(fallback_config, key, original_points) ==
    IF key \in PointKeys /\ IsSome(fallback_config.points[key])
    THEN IF original_points = 0 THEN 0 ELSE Val(fallback_config.points[key])
    ELSE original_points

\* the points of a penalty taken as the fallback value negated
BestGame_new_points_negated(fallback_config, key, original_points) ==
    IF key \in PointKeys /\ IsSome(fallback_config.points[key])
    THEN LET fallback_value == Val(fallback_config.points[key]) IN
         IF original_points = 0 THEN 0
         ELSE IF original_points < 0 THEN -fallback_value
         ELSE fallback_value
    ELSE original_points

\* the points rescore_with_fallback_config gives a breakdown entry
BestGame_new_points(fallback_config, key, original_points) ==
    IF key \in PointKeys /\ IsSome(fallback_config.points[key])
    THEN LET fallback_value == Val(fallback_config.points[key]) IN
         IF original_points = 0 THEN 0
         ELSE IF original_points < 0
         THEN IF fallback_value > 0 THEN -fallback_value ELSE fallback_value
         ELSE fallback_value
    ELSE original_points

\* the loop of rescore_with_fallback_config over all_game_refs from i on
RECURSIVE BestGame_rescore_from(_, _, _)
BestGame_rescore_from(s, fallback_config, i) ==
    IF i > Len(s.all_game_refs) THEN s
    ELSE LET game_ref == s.all_game_refs[i]
             new_breakdown ==
                 [k \in BreakdownKeys |->
                     BestGame_new_points(fallback_config, k, game_ref.breakdown[k])]
             new_total == SumOf(new_breakdown, BreakdownKeys)
             new_ref == [game_ref EXCEPT !.total_points = new_total,
                                         !.breakdown = new_breakdown]
             s1 == [s EXCEPT !.all_game_refs[i] = new_ref]
             s2 == IF ~IsSome(s.best_game_score)
                      \/ new_total > Val(s.best_game_score)
                   THEN [s1 EXCEPT !.best_game_score = Some(new_total),
                                   !.best_game_ref = Some(new_ref)]
                   ELSE s1
         IN BestGame_rescore_from(s2, fallback_config, i + 1)

\* the rescoring pass without the test of the user's average rating
BestGame_rescore_with_fallback_config_any_rating(s, fallback) ==
    IF ~IsSome(fallback) THEN s
    ELSE [BestGame_rescore_from(
              [s EXCEPT !.best_game_score = None, !.best_game_ref = None],
              Val(fallback), 1)
          EXCEPT !.config = Val(fallback)]

\* lines 78-141; fallback is None when the fallback file does not exist
BestGame_rescore_with_fallback_config(s, fallback) ==
    IF ~IsSome(fallback) THEN s
    ELSE LET fallback_config == Val(fallback)
             elo_threshold == IF IsSome(fallback_config.elo_threshold)
                              THEN Val(fallback_config.elo_threshold) ELSE 600
         IN IF IsSome(s.user_average_elo)
               /\ Val(s.user_average_elo) < elo_threshold
            THEN s
            ELSE [BestGame_rescore_from(
                      [s EXCEPT !.best_game_score = None,
                                !.best_game_ref = None],
                      fallback_config, 1)
                  EXCEPT !.config = fallback_config]


-----------------------------------------------------------------------------
(* get_final_results: the value returned (out) and the object afterwards   *)
(* (self); a finding is modelled by the reference it is built from and the *)
(* totals written into it.                                                 *)

Keys(s, key(_)) == [i \in 1..Len(s) |-> key(s[i])]

\* "if not ref: return []; ...; return [finding]" on a single stored reference
SingleRef_get_final_results(s, ref) ==
    [self |-> s, out |-> IF IsSome(ref) THEN <<Val(ref)>> ELSE <<>>]

\* every stored reference becomes a finding, in order
AllRefs_get_final_results(s, refs) ==
    [self |-> s,
     out |-> [i \in 1..Len(refs) |-> [ref |-> refs[i], total |-> Len(refs)]]]

\* all_findings[0] after the sort, with the total count
FirstRef_get_final_results(s, sorted) ==
    [self |-> s,
     out |-> IF sorted = <<>> THEN <<>>
             ELSE <<[ref |-> sorted[1], total |-> Len(sorted)]>>]

QueenSacrifice_get_final_results(s) ==
    AllRefs_get_final_results(s, s.all_sacrifice_refs)

KnightFork_get_final_results(s) ==
    AllRefs_get_final_results(s, s.all_fork_refs)

\* all_findings[0] without the sort
BackRankMate_get_final_results_unsorted(s) ==
    FirstRef_get_final_results(s, s.all_findings)

BackRankMate_get_final_results(s) ==
    LET sorted == list_sort(s.all_findings,
                    Keys(s.all_findings,
                         LAMBDA x : <<IF x.is_rook_mate THEN 0 ELSE 1,
                                      -x.enemy_material, x.final_move_number>>))
    IN FirstRef_get_final_results([s EXCEPT !.all_findings = sorted], sorted)

\* no finding has a "move_number" key: every key is inf
SmotheredMate_get_final_results(s) ==
    LET sorted == list_sort(s.all_findings,
                            Keys(s.all_findings, LAMBDA x : <<0>>))
        counted == IF sorted = <<>> THEN sorted
                   ELSE [sorted EXCEPT ![1].total_smothered_mates = Len(sorted)]
    IN [self |-> [s EXCEPT !.all_findings = counted],
        out |-> IF counted = <<>> THEN <<>> ELSE <<counted[1]>>]

KingMate_get_final_results(s) ==
    LET sorted == list_sort(s.all_findings,
                            Keys(s.all_findings, LAMBDA x : <<x.move_number>>))
    IN FirstRef_get_final_results([s EXCEPT !.all_findings = sorted], sorted)

CastleMate_get_final_results(s) ==
    FirstRef_get_final_results(s, s.all_castle_mates)

PawnMate_get_final_results(s) ==
    LET sorted == list_sort(s.all_findings,
                    Keys(s.all_findings, LAMBDA x : <<x.final_move_number>>))
    IN FirstRef_get_final_results([s EXCEPT !.all_findings = sorted], sorted)

KnightPromotionMate_get_final_results(s) ==
    LET sorted == list_sort(s.all_findings,
                    Keys(s.all_findings, LAMBDA x : <<-x.final_move_number>>))
    IN FirstRef_get_final_results([s EXCEPT !.all_findings = sorted], sorted)

EnPassantMate_get_final_results(s) ==
    FirstRef_get_final_results(s, s.all_findings)

KnightBishopMate_get_final_results(s) ==
    LET sorted == list_sort(s.all_findings,
                    Keys(s.all_findings, LAMBDA x : <<x.final_move_number>>))
    IN FirstRef_get_final_results([s EXCEPT !.all_findings = sorted], sorted)

HungQueen_get_final_results(s) ==
    LET sorted == list_sort(s.all_hung_queen_refs,
                    Keys(s.all_hung_queen_refs,
                         LAMBDA x : <<IF x.resigned_after THEN 0 ELSE 1,
                                      x.move_number>>))
    IN FirstRef_get_final_results(
           [s EXCEPT !.all_hung_queen_refs = sorted], sorted)

CaptureSequence_get_final_results(s) ==
    LET sorted == list_sort(s.all_sequence_refs,
                    Keys(s.all_sequence_refs,
                         LAMBDA x : <<-x.sequence_length, -x.start_move>>))
    IN FirstRef_get_final_results(
           [s EXCEPT !.all_sequence_refs = sorted], sorted)

Windmill_get_final_results(s) ==
    LET sorted == list_sort(s.all_windmill_refs,
                    Keys(s.all_windmill_refs, LAMBDA x : <<-x.captures>>))
    IN FirstRef_get_final_results(
           [s EXCEPT !.all_windmill_refs = sorted], sorted)

(* build_game_tags_map (main.py): the tags given to the games of a batch.  *)
(* A game's link is its position in the batch; every game is taken to      *)
(* carry a Link header.                                                    *)

\* the keys of the dict that finish_game appends to all_findings
SmotheredMate_finding_keys ==
    {"feature_name", "display_name", "game_metadata", "position_link",
     "result_data"}

KingMate_finding_keys ==
    {"feature_name", "display_name", "move_number", "game_metadata",
     "position_link", "result_data"}

\* the keys of a lightweight reference that names its game
ref_keys == {"game_data"}

\* [ref["game_data"].metadata.link for ref in refs if ref.get("game_data")]
matched_game_links(refs, keys) ==
    IF "game_data" \in keys THEN { refs[i].game_data : i \in DOMAIN refs }
    ELSE {}

\* the detector classes that define get_matched_game_links
has_get_matched_game_links ==
    {BackRankMate, BestGame, ClutchWin, HungQueen, KingMate,
     KnightPromotionMate, QueenSacrifice, SmotheredMate}

get_matched_game_links(d, s) ==
    CASE d = BackRankMate -> matched_game_links(s.all_findings, ref_keys)
      [] d = BestGame -> matched_game_links(s.all_game_refs, ref_keys)
      [] d = ClutchWin ->
             IF IsSome(s.clutch_game_ref)
             THEN {Val(s.clutch_game_ref).game_data} ELSE {}
      [] d = HungQueen -> matched_game_links(s.all_hung_queen_refs, ref_keys)
      [] d = KingMate ->
             matched_game_links(s.all_findings, KingMate_finding_keys)
      [] d = KnightPromotionMate ->
             matched_game_links(s.all_findings, ref_keys)
      [] d = QueenSacrifice ->
             matched_game_links(s.all_sacrifice_refs, ref_keys)
      [] d = SmotheredMate ->
             matched_game_links(s.all_findings, SmotheredMate_finding_keys)

\* tags_map as the set of pairs <<link, detector whose tag the link has>>
build_game_tags_map(analyzers) ==
    UNION { { <<link, d>> : link \in get_matched_game_links(d, analyzers[d]) } :
            d \in ANALYZER_TAGS \cap has_get_matched_game_links }

get_final_results(d, s) ==
    CASE d = QueenSacrifice -> QueenSacrifice_get_final_results(s)
      [] d = KnightFork -> KnightFork_get_final_results(s)
      [] d = BackRankMate -> BackRankMate_get_final_results(s)
      [] d = SmotheredMate -> SmotheredMate_get_final_results(s)
      [] d = KingMate -> KingMate_get_final_results(s)
      [] d = CastleMate -> CastleMate_get_final_results(s)
      [] d = PawnMate -> PawnMate_get_final_results(s)
      [] d = KnightPromotionMate -> KnightPromotionMate_get_final_results(s)
      [] d = QuickestMate -> SingleRef_get_final_results(s, s.quickest_game_ref)
      [] d = EnPassantMate -> EnPassantMate_get_final_results(s)
      [] d = KnightBishopMate -> KnightBishopMate_get_final_results(s)
      [] d = KingWalk -> SingleRef_get_final_results(s, s.best_king_walk_ref)
      [] d = BiggestComeback ->
             SingleRef_get_final_results(s, s.biggest_deficit_ref)
      [] d = ClutchWin -> SingleRef_get_final_results(s, s.clutch_game_ref)
      [] d = BestGame -> SingleRef_get_final_results(s, s.best_game_ref)
      [] d = LongestGame -> SingleRef_get_final_results(s, s.longest_game_ref)
      [] d = HungQueen -> HungQueen_get_final_results(s)
      [] d = CaptureSequence -> CaptureSequence_get_final_results(s)
      [] d = Stalemate ->
             SingleRef_get_final_results(s, s.max_material_stalemate_ref)
      [] d = Windmill -> Windmill_get_final_results(s)

-----------------------------------------------------------------------------
(* Dispatch of the hooks on the detector class                             *)

analyzer_init(d) ==
    CASE d = QueenSacrifice -> QueenSacrifice_init
      [] d = KnightFork -> KnightFork_init
      [] d = BackRankMate -> BackRankMate_init
      [] d = SmotheredMate -> SmotheredMate_init
      [] d = KingMate -> KingMate_init
      [] d = CastleMate -> CastleMate_init
      [] d = PawnMate -> PawnMate_init
      [] d = KnightPromotionMate -> KnightPromotionMate_init
      [] d = QuickestMate -> QuickestMate_init
      [] d = EnPassantMate -> EnPassantMate_init
      [] d = KnightBishopMate -> KnightBishopMate_init
      [] d = KingWalk -> KingWalk_init
      [] d = BiggestComeback -> BiggestComeback_init
      [] d = ClutchWin -> ClutchWin_init
      [] d = BestGame -> BestGame_init
      [] d = LongestGame -> LongestGame_init
      [] d = HungQueen -> HungQueen_init
      [] d = CaptureSequence -> CaptureSequence_init
      [] d = Stalemate -> Stalemate_init
      [] d = Windmill -> Windmill_init

start_game(d, s, g, idx) ==
    CASE d = QueenSacrifice -> QueenSacrifice_start_game(s, g, idx)
      [] d = KnightFork -> KnightFork_start_game(s, g, idx)
      [] d = BackRankMate -> BackRankMate_start_game(s, g, idx)
      [] d = SmotheredMate -> SmotheredMate_start_game(s, g, idx)
      [] d = KingMate -> KingMate_start_game(s, g, idx)
      [] d = CastleMate -> CastleMate_start_game(s, g, idx)
      [] d = PawnMate -> PawnMate_start_game(s, g, idx)
      [] d = KnightPromotionMate -> KnightPromotionMate_start_game(s, g, idx)
      [] d = QuickestMate -> QuickestMate_start_game(s, g, idx)
      [] d = EnPassantMate -> EnPassantMate_start_game(s, g, idx)
      [] d = KnightBishopMate -> KnightBishopMate_start_game(s, g, idx)
      [] d = KingWalk -> KingWalk_start_game(s, g, idx)
      [] d = BiggestComeback -> BiggestComeback_start_game(s, g, idx)
      [] d = ClutchWin -> ClutchWin_start_game(s, g, idx)
      [] d = BestGame -> BestGame_start_game(s, g, idx)
      [] d = LongestGame -> LongestGame_start_game(s, g, idx)
      [] d = HungQueen -> HungQueen_start_game(s, g, idx)
      [] d = CaptureSequence -> CaptureSequence_start_game(s, g, idx)
      [] d = Stalemate -> Stalemate_start_game(s, g, idx)
      [] d = Windmill -> Windmill_start_game(s, g, idx)

\* the detectors not listed inherit the empty process_move
process_move(d, s, c) ==
    CASE d = QueenSacrifice -> QueenSacrifice_process_move(s, c)
      [] d = KnightFork -> KnightFork_process_move(s, c)
      [] d = SmotheredMate -> SmotheredMate_process_move(s, c)
      [] d = KingMate -> KingMate_process_move(s, c)
      [] d = QuickestMate -> QuickestMate_process_move(s, c)
      [] d = LongestGame -> LongestGame_process_move(s, c)
      [] d = HungQueen -> HungQueen_process_move(s, c)
      [] d = Windmill -> Windmill_process_move(s, c)
      [] OTHER -> s

finish_game(d, s, g) ==
    CASE d = QueenSacrifice -> QueenSacrifice_finish_game(s)
      [] d = KnightFork -> KnightFork_finish_game(s)
      [] d = BackRankMate -> BackRankMate_finish_game(s, g)
      [] d = SmotheredMate -> SmotheredMate_finish_game(s, g)
      [] d = KingMate -> KingMate_finish_game(s, g)
      [] d = CastleMate -> CastleMate_finish_game(s, g)
      [] d = PawnMate -> PawnMate_finish_game(s, g)
      [] d = KnightPromotionMate -> KnightPromotionMate_finish_game(s, g)
      [] d = QuickestMate -> QuickestMate_finish_game(s, g)
      [] d = EnPassantMate -> EnPassantMate_finish_game(s, g)
      [] d = KnightBishopMate -> KnightBishopMate_finish_game(s, g)
      [] d = KingWalk -> KingWalk_finish_game(s, g)
      [] d = BiggestComeback -> BiggestComeback_finish_game(s, g)
      [] d = ClutchWin -> ClutchWin_finish_game(s, g)
      [] d = BestGame -> BestGame_finish_game(s)
      [] d = LongestGame -> LongestGame_finish_game(s, g)
      [] d = HungQueen -> HungQueen_finish_game(s)
      [] d = CaptureSequence -> CaptureSequence_finish_game(s, g)
      [] d = Stalemate -> Stalemate_finish_game(s, g)
      [] d = Windmill -> Windmill_finish_game(s)

\* the detectors whose finish_game returns a non-empty list for the game
finish_game_returns(d, s, g) ==
    CASE d = KingMate -> KingMate_finish_game(s, g).findings # <<>>
      [] d = SmotheredMate -> SmotheredMate_finish_game(s, g).findings # <<>>
      [] d = CastleMate -> CastleMate_finish_game(s, g).found_castle_mate
      [] OTHER -> FALSE

-----------------------------------------------------------------------------
(* The dispatch engine (UnifiedAnalyzer) and the batch endpoint            *)

VARIABLES
    pc,                \* "idle": between games of analyze_games; "replay":
                       \* inside analyze_game's move loop; "select": after
                       \* analyze_games, where main calls get_final_results
    game_data,         \* analyze_game's locals: the game being replayed,
    move_number,       \* the plies pushed on the board and the result of
    active_analyzers,  \* _get_active_analyzers; gone when it returns
    an,                \* the registered detector objects, by class
    game_findings,     \* classes with findings in analyze_game's last return
    results,           \* last return value of get_final_results, by class
    hist,              \* per ingested game: did the user win, '#' on the
                       \* last move, how analyze_game left the game, and the
                       \* plies at which the user's queen took a queen
    calls              \* calls of get_final_results made after main's loop

vars == <<pc, game_data, move_number, active_analyzers, an, game_findings,
          results, hist, calls>>

Init ==
    /\ pc = "idle"
    /\ game_data = BaseGame
    /\ move_number = 0
    /\ active_analyzers = {}
    /\ an = [d \in ANALYZER_TAGS |-> analyzer_init(d)]
    /\ game_findings = {}
    /\ results = [d \in ANALYZER_TAGS |-> None]
    /\ hist = <<>>
    /\ calls = 0

is_hyper_bullet(g) == IsSome(g.tc) /\ Val(g.tc) < 60

get_active_analyzers(g) ==
    LET has_checkmate == LastHasMate(g)
        user_won == UserWon(g)
        is_draw == (g.result = "1/2-1/2")
    IN { d \in ANALYZER_TAGS :
           /\ ~(d \in MATE_ANALYZERS /\ ~has_checkmate)
           /\ ~(d \in WIN_ANALYZERS /\ ~user_won)
           /\ ~(d \in DRAW_ANALYZERS /\ ~is_draw) }

\* the rook checks of a run that are captures, and those that are
\* discovered checks
RunCaptures(seq) ==
    Cardinality({ i \in 1..Len(seq) : seq[i].dest # "" /\ seq[i].is_capture })
RunDiscovered(seq) ==
    Cardinality({ i \in 1..Len(seq) : seq[i].dest # "" /\ seq[i].is_discovered })

\* a run of three entries with two rook checks and a discovered check among
\* them, but exactly one capture
OneCaptureRun(seq) ==
    /\ Len(seq) >= 3
    /\ Cardinality({ i \in 1..Len(seq) : seq[i].dest # "" }) >= 2
    /\ RunCaptures(seq) = 1
    /\ RunDiscovered(seq) >= 1

\* the squares in front of the mated king, by file, and those of them that
\* hold no piece of the king's colour
EscapeFiles(fen) ==
    { f \in 0..7 : f - fen.king_file \in {-1, 0, 1} }
EmptyEscapes(fen) == EscapeFiles(fen) \ fen.own_front

\* the detectors that keep the one best game of the batch
Trackers ==
    {LongestGame, QuickestMate, BiggestComeback, ClutchWin, Stalemate, KingWalk}

\* the measure by which tracker d compares game g, -1 if g does not qualify
\* for it
Measure(d, g) ==
    LET mate_win == UserWon(g) /\ LastHasMate(g) IN
    CASE d = LongestGame -> g.n
      [] d = QuickestMate ->
             IF mate_win /\ ~(g.last.piece = "Q" /\ g.last.dest \in {"f7", "f2"})
             THEN g.n ELSE -1
      [] d = BiggestComeback ->
             IF mate_win /\ g.fen.header /\ g.fen.deficit > 0
             THEN g.fen.deficit ELSE -1
      [] d = ClutchWin ->
             IF /\ mate_win /\ ~g.daily /\ ~(IsSome(g.tc) /\ Val(g.tc) > 3600)
                /\ g.clock >= 0 /\ g.clock <= 5
             THEN g.clock ELSE -1
      [] d = Stalemate ->
             IF /\ g.result = "1/2-1/2" /\ g.term = "stalemate" /\ g.fen.header
                /\ g.fen.stalemated = g.side /\ g.fen.material > 0
             THEN g.fen.material ELSE -1
      [] d = KingWalk ->
             IF /\ mate_win /\ g.fen.mate /\ g.walk > 0
                /\ (g.n + 1) \div 2 <= KingWalk_max_moves
             THEN g.walk ELSE -1

\* no process_move call received by any detector
NoCalls == [d \in ANALYZER_TAGS |-> <<>>]

\* history of a game: its outcome, the plies of queen-takes-queen, how its
\* one-capture runs came to an end, its length if the user won it by mate,
\* whether its last move is a queen move to f7 or f2, and, for a mate by a
\* rook or queen on
\* the king's back rank, how many squares lie in front of the king and how
\* many of them are free of its own pieces
HistEntry(g, outcome) ==
    [won |-> UserWon(g), mate |-> LastHasMate(g), outcome |-> outcome,
     qxq |-> {}, run |-> {},
     headers |-> g.headers,
     \* the detector whose per-move hook raised, and the ply it raised at
     raised |-> None,
     \* while the game is replayed: the ply and square of the user's latest
     \* queen move that took a lesser piece or gave check without taking, and
     \* the plies of such moves that the opponent answered by moving onto
     \* that square; and the piece taken by the ply replayed last
     offer |-> None, landed |-> {}, took |-> "-",
     \* while a watched game is replayed: the move replayed last, whether
     \* the opponent's last move gave check, and the square the user's queen
     \* went to on the user's last move ("" if another piece moved)
     played |-> None, checked |-> FALSE, arrived |-> "",
     \* while a logged game is replayed: the process_move calls each detector
     \* has received, each with its context and len(board.move_stack)
     received |-> NoCalls,
     \* filled in when the game completes
     plies |-> 0, measure |-> [d \in Trackers |-> -1], scholar |-> FALSE,
     front |-> <<0, 0>>]

\* the history of game g once it has completed: the plies of a won mate,
\* its measure for each tracker, whether it ends with a queen on f7 or f2,
\* and the escape squares in front of a king mated on its back rank
CompletedEntry(h, g) ==
    [h EXCEPT
       !.outcome = "completed", !.offer = None, !.landed = {}, !.took = "-",
       !.played = None, !.checked = FALSE, !.arrived = "",
       !.received = NoCalls,
       !.plies = IF UserWon(g) /\ LastHasMate(g) THEN g.n ELSE 0,
       !.measure = [d \in Trackers |-> Measure(d, g)],
       !.scholar = g.last.piece = "Q" /\ g.last.dest \in {"f7", "f2"},
       !.front = IF g.fen.king_back /\ g.fen.rq_on_rank /\ LastHasMate(g)
                 THEN <<Cardinality(EscapeFiles(g.fen)),
                        Cardinality(EmptyEscapes(g.fen))>>
                 ELSE <<0, 0>>]

\* analyze_game returns {} before any hook: not the user's game, or hyper bullet
SkipGame(g) ==
    /\ pc = "idle"
    /\ Len(hist) < MaxGames
    /\ g.side = "none" \/ is_hyper_bullet(g)
    /\ hist' = Append(hist, HistEntry(g, "skipped"))
    /\ game_findings' = {}
    /\ UNCHANGED <<pc, game_data, move_number, active_analyzers, an, results,
                   calls>>

\* analyze_game up to the move loop: start_game on every detector, pre-filters
StartGame(g) ==
    /\ pc = "idle"
    /\ Len(hist) < MaxGames
    /\ g.side # "none" /\ ~is_hyper_bullet(g)
    /\ hist' = Append(hist, HistEntry(g, "replay"))
    /\ an' = [d \in ANALYZER_TAGS |-> start_game(d, an[d], g, Len(hist) + 1)]
    /\ active_analyzers' = get_active_analyzers(g)
    /\ game_data' = g
    /\ move_number' = 0
    /\ pc' = "replay"
    /\ UNCHANGED <<game_findings, results, calls>>

\* the user's queen takes a piece that is not a queen, or gives check
\* without taking
QueenOffer(c) ==
    /\ c.is_user_move /\ c.move.piece = "Q"
    /\ \/ c.move.capture /\ c.move.victim # "Q"
       \/ ~c.move.capture /\ c.move.check

\* the opponent answers the offer of the ply before by moving onto its square
LandsOnOffer(offer, c) ==
    /\ c.is_opponent_move /\ IsSome(offer)
    /\ Val(offer).ply + 1 = c.move_number
    /\ c.move.to = Val(offer).square

\* the user's queen takes the opponent's queen at this ply
QueenTakesQueen(c) ==
    c.is_user_move /\ c.move.piece = "Q" /\ c.move.capture /\ c.move.victim = "Q"

\* the move replayed at ply k is the move written as moves[k-1]: 'x' marks
\* a capture, and the last ply is the piece and check marker of moves[-1];
\* from chess.Board() the first ply is a pawn or knight move that neither
\* captures nor checks nor attacks a piece
AgreesWithText(m, k, g) ==
    /\ m.capture = (k \in g.x)
    /\ k = 1 => /\ m.piece \in {"P", "N"} /\ ~m.check /\ m.fork = <<>>
                /\ m.castle = "no" /\ ~m.disc
    /\ k = g.n => /\ g.last.piece = (IF m.castle = "short" THEN "O-O"
                                     ELSE IF m.castle = "long" THEN "O-O-O"
                                     ELSE m.piece)
                  /\ (g.last.check \/ g.last.mate \/ g.tail # "none") = m.check

RegisteredBefore(e, d) ==
    \E i, j \in 1..Len(Registered) :
        i < j /\ Registered[i] = e /\ Registered[j] = d

\* the detectors whose process_move reads the board and the move
BoardHooks ==
    {QueenSacrifice, KnightFork, SmotheredMate, KingMate, HungQueen, Windmill}

\* the process_move of active detector d raises at the next ply: the
\* detectors before d in the loop have processed the move, the others have
\* not, d itself got either nowhere or to its end, and the except clause
\* of analyze_game returns {} without any finish_game
HookRaises(d, m) ==
    /\ pc = "replay"
    /\ move_number < game_data.n
    /\ d \in active_analyzers \cap BoardHooks
    /\ AgreesWithText(m, move_number + 1, game_data)
    /\ LET context == MoveContext(m, move_number + 1, game_data) IN
       /\ \E own \in {an[d], process_move(d, an[d], context)} :
             an' = [e \in ANALYZER_TAGS |->
                      IF e = d THEN own
                      ELSE IF e \in active_analyzers /\ RegisteredBefore(e, d)
                      THEN process_move(e, an[e], context)
                      ELSE an[e]]
       /\ hist' = [hist EXCEPT
                     ![Len(hist)].outcome = "aborted",
                     ![Len(hist)].offer = None, ![Len(hist)].landed = {},
                     ![Len(hist)].took = "-", ![Len(hist)].played = None,
                     ![Len(hist)].checked = FALSE, ![Len(hist)].arrived = "",
                     ![Len(hist)].received = NoCalls,
                     ![Len(hist)].raised = Some([by |-> d, context |-> context])]
    /\ game_findings' = {}
    /\ pc' = "idle"
    /\ game_data' = BaseGame /\ move_number' = 0 /\ active_analyzers' = {}
    /\ UNCHANGED <<results, calls>>

\* one iteration of the move loop: process_move on the active detectors,
\* then the move is pushed on the board
ProcessPly(m) ==
    /\ pc = "replay"
    /\ move_number < game_data.n
    /\ AgreesWithText(m, move_number + 1, game_data)
    /\ LET context == MoveContext(m, move_number + 1, game_data) IN
       an' = [d \in ANALYZER_TAGS |->
                 IF d \in active_analyzers
                 THEN process_move(d, an[d], context) ELSE an[d]]
    /\ LET context == MoveContext(m, move_number + 1, game_data)
           ended == /\ Windmill \in active_analyzers
                    /\ OneCaptureRun(an[Windmill].windmill_sequence)
                    /\ process_move(Windmill, an[Windmill], context)
                          .windmill_sequence = <<>>
       IN hist' = [hist EXCEPT
                     ![Len(hist)].qxq = IF QueenTakesQueen(context)
                                        THEN @ \cup {move_number + 1} ELSE @,
                     ![Len(hist)].run = IF ended THEN @ \cup {"ended"} ELSE @,
                     ![Len(hist)].offer = IF QueenOffer(context)
                                          THEN Some([ply |-> move_number + 1,
                                                     square |-> m.to])
                                          ELSE @,
                     ![Len(hist)].landed =
                         IF LandsOnOffer(hist[Len(hist)].offer, context)
                         THEN @ \cup {move_number} ELSE @,
                     ![Len(hist)].took = IF m.capture THEN m.victim ELSE "-",
                     ![Len(hist)].played = IF game_data.watch
                                           THEN Some(m) ELSE @,
                     ![Len(hist)].checked =
                         IF game_data.watch /\ context.is_opponent_move
                         THEN m.check ELSE @,
                     ![Len(hist)].arrived =
                         IF game_data.watch /\ context.is_user_move
                         THEN (IF m.piece = "Q" THEN m.to ELSE "") ELSE @,
                     ![Len(hist)].received =
                         IF game_data.log
                         THEN [d \in ANALYZER_TAGS |->
                                 IF d \in active_analyzers
                                 THEN Append(@[d], [context |-> context,
                                                    pushed |-> move_number])
                                 ELSE @[d]]
                         ELSE @]
    /\ move_number' = move_number + 1
    /\ UNCHANGED <<pc, game_data, active_analyzers, game_findings, results,
                   calls>>

\* an exception inside the try block: the game is dropped, analyze_game returns {}
ReplayError ==
    /\ pc = "replay"
    /\ move_number < game_data.n
    /\ hist' = [hist EXCEPT ![Len(hist)].outcome = "aborted",
                            ![Len(hist)].offer = None,
                            ![Len(hist)].landed = {},
                            ![Len(hist)].took = "-",
                            ![Len(hist)].played = None,
                            ![Len(hist)].checked = FALSE,
                            ![Len(hist)].arrived = "",
                            ![Len(hist)].received = NoCalls]
    /\ game_findings' = {}
    /\ pc' = "idle"
    /\ game_data' = BaseGame /\ move_number' = 0 /\ active_analyzers' = {}
    /\ UNCHANGED <<an, results, calls>>

\* after the loop: finish_game on every detector
FinishGame ==
    /\ pc = "replay"
    /\ move_number = game_data.n
    /\ an' = [d \in ANALYZER_TAGS |-> finish_game(d, an[d], game_data)]
    /\ game_findings' =
           { d \in ANALYZER_TAGS : finish_game_returns(d, an[d], game_data) }
    /\ hist' = [hist EXCEPT
                  ![Len(hist)] =
                      [CompletedEntry(@, game_data) EXCEPT !.run =
                          IF OneCaptureRun(an[Windmill].windmill_sequence)
                          THEN @ \cup {"open"} ELSE @]]
    /\ pc' = "idle"
    /\ game_data' = BaseGame /\ move_number' = 0 /\ active_analyzers' = {}
    /\ UNCHANGED <<results, calls>>

\* the selection loop entered from inside the batch, a game still in replay
EndBatch_inside_batch ==
    /\ pc \in {"idle", "replay"}
    /\ pc' = "select"
    /\ an' = [d \in ANALYZER_TAGS |-> get_final_results(d, an[d]).self]
    /\ results' = [d \in ANALYZER_TAGS |-> Some(get_final_results(d, an[d]).out)]
    /\ UNCHANGED <<game_data, move_number, active_analyzers, game_findings, hist,
                   calls>>

\* analyze_games returns and main runs its loop over the detectors, calling
\* get_final_results on each
EndBatch ==
    /\ pc = "idle"
    /\ pc' = "select"
    /\ an' = [d \in ANALYZER_TAGS |-> get_final_results(d, an[d]).self]
    /\ results' = [d \in ANALYZER_TAGS |-> Some(get_final_results(d, an[d]).out)]
    /\ UNCHANGED <<game_data, move_number, active_analyzers, game_findings, hist,
                   calls>>

\* a further call of get_final_results on a detector after the loop
GetFinalResults(d) ==
    /\ pc = "select"
    /\ calls < MaxCalls
    /\ calls' = calls + 1
    /\ LET r == get_final_results(d, an[d]) IN
       /\ an' = [an EXCEPT ![d] = r.self]
       /\ results' = [results EXCEPT ![d] = Some(r.out)]
    /\ UNCHANGED <<pc, game_data, move_number, active_analyzers, game_findings,
                   hist>>

-----------------------------------------------------------------------------
(* Inputs: game records and moves a batch can hold                         *)

\* a record a PGN of a finished game can give rise to
WellFormed(g) ==
    /\ g.n \in 1..MaxPly /\ g.x \subseteq 2..g.n
    /\ g.n = 1 => ~g.last.check /\ ~g.fen.mate /\ g.last.piece \in {"P", "N"}
    /\ g.last.capture = (g.n \in g.x)
    /\ g.last.mate => g.hash /\ g.tail = "none"
    /\ g.tail # "none" => g.hash /\ g.last.piece \in {"O-O", "O-O-O"}
    /\ g.fen.mate = (g.last.mate \/ g.tail # "none")
    /\ g.fen.mate => IF g.n % 2 = 1 THEN g.result = "1-0" ELSE g.result = "0-1"
    /\ g.fen.pattern # "none" => g.fen.mate
    /\ g.fen.rq_on_rank => g.fen.mate
    /\ g.fen.own_front \subseteq 0..7 /\ g.fen.king_file \in 0..7
    /\ g.walk > 0 => g.fen.mate
    /\ g.term = "checkmate" => g.fen.mate
    /\ g.term = "stalemate" => g.result = "1/2-1/2"
    /\ g.last.ep => g.last.piece = "P" /\ g.last.capture /\ g.last.mate
    /\ IsSome(g.headers) =>
           /\ g.side = user_side(Val(g.headers).white, Val(g.headers).black)
           /\ g.tc = base_time(Val(g.headers).time_control)

\* the longest game of odd (white moved last) and of even length
OddN == IF MaxPly % 2 = 1 THEN MaxPly ELSE MaxPly - 1
EvenN == IF MaxPly % 2 = 0 THEN MaxPly ELSE MaxPly - 1

MateSan(piece) == [SanOf(piece, TRUE, "e5") EXCEPT !.check = TRUE]

\* a game the user won as White by checkmate with the given last move
MateWin(last, pattern) ==
    [BaseGame EXCEPT !.n = OddN, !.last = last, !.hash = TRUE,
                     !.term = "checkmate", !.fen.mate = TRUE,
                     !.fen.pattern = pattern,
                     !.fen.king_back = (pattern = "backrank"),
                     !.fen.rq_on_rank = (pattern = "backrank"),
                     !.fen.own_front =
                         IF pattern = "backrank" THEN {5, 6, 7} ELSE {}]

\* a game the user won as Black without mate
BlackWin == [BaseGame EXCEPT !.side = "black", !.result = "0-1", !.n = MaxPly]

EngineGames ==
    { g \in
      { \* wins without mate: queen captures, queen checks, rook checks
        [BlackWin EXCEPT !.x = {2, 3}],
        [BlackWin EXCEPT !.x = {3}],
        [BlackWin EXCEPT !.n = EvenN, !.x = {2, EvenN}, !.rook3 = TRUE,
             !.last = [SanOf("R", FALSE, "e5") EXCEPT !.check = TRUE,
                                                        !.capture = TRUE]],
        [BaseGame EXCEPT !.n = MaxPly, !.x = {3, 4}],
        [BaseGame EXCEPT !.n = MaxPly, !.term = "time"],
        \* losses and a draw
        [BaseGame EXCEPT !.n = MaxPly, !.result = "0-1", !.x = {2},
                         !.term = "resign"],
        [BaseGame EXCEPT !.n = 2, !.result = "0-1", !.last.mate = TRUE,
                         !.last.check = TRUE, !.last.piece = "Q",
                         !.hash = TRUE, !.fen.mate = TRUE],
        [BaseGame EXCEPT !.n = MaxPly, !.result = "1/2-1/2",
                         !.term = "stalemate", !.fen.stalemated = "white",
                         !.fen.material = 10],
        \* games analyze_game skips
        [BaseGame EXCEPT !.side = "none"],
        [BaseGame EXCEPT !.tc = Some(30)],
        \* mates
        MateWin(MateSan("N"), "smothered"),
        [MateWin(MateSan("R"), "backrank") EXCEPT
             !.fen.rook_mate = TRUE, !.fen.enemy_material = 10,
             !.fen.deficit = 5, !.clock = 3, !.walk = 50],
        [MateWin(MateSan("Q"), "backrank") EXCEPT !.side = "black",
             !.result = "0-1", !.n = 2, !.fen.enemy_material = 10],
        MateWin([MateSan("Q") EXCEPT !.dest = "f7"], "none"),
        MateWin(MateSan("K"), "none"),
        [MateWin([MateSan("P") EXCEPT !.capture = TRUE, !.ep = TRUE], "none")
             EXCEPT !.x = {OddN}],
        MateWin([MateSan("P") EXCEPT !.promo = "N"], "none"),
        MateWin(MateSan("B"), "knb"),
        [MateWin(SanOf("O-O", FALSE, "g1"), "none") EXCEPT !.tail = "O-O#"] } :
      WellFormed(g) }

\* non-capturing moves of every piece, with and without check
PlainMoves ==
    { [QuietMove EXCEPT !.piece = p, !.check = ch,
                        !.to = IF p = "Q" THEN "d4" ELSE "e5"] :
        p \in {"P", "N", "B", "R", "Q", "K"}, ch \in BOOLEAN }

\* captures on d4 and on the white queen's home square
CaptureMoves ==
    { [QuietMove EXCEPT !.piece = p, !.capture = TRUE, !.victim = v, !.to = t] :
        p \in {"P", "Q"}, v \in {"P", "Q"}, t \in {"d4", "d1"} }

SpecialMoves ==
    { [QuietMove EXCEPT !.piece = "N", !.check = TRUE, !.fork = <<"K", "R">>],
      [QuietMove EXCEPT !.piece = "N", !.fork = <<"B", "N">>],
      [QuietMove EXCEPT !.piece = "R", !.check = TRUE, !.capture = TRUE,
                        !.victim = "P", !.trapped = TRUE, !.disc = TRUE],
      [QuietMove EXCEPT !.piece = "K", !.check = TRUE, !.castle = "short",
                        !.to = "g1"],
      \* en passant: the captured pawn is not on the target square
      [QuietMove EXCEPT !.piece = "P", !.check = TRUE, !.capture = TRUE] }

EngineMoves == PlainMoves \cup CaptureMoves \cup SpecialMoves

Next ==
    \/ \E g \in EngineGames : SkipGame(g)
    \/ \E g \in EngineGames : StartGame(g)
    \/ \E m \in EngineMoves : ProcessPly(m)
    \/ ReplayError
    \/ FinishGame
    \/ EndBatch
    \/ \E d \in ANALYZER_TAGS : GetFinalResults(d)

Spec == Init /\ [][Next]_vars

-----------------------------------------------------------------------------
(* Batches for the selection hooks: every kind of game, replayed with one  *)
(* line of play per kind of candidate                                      *)

\* the games that can leave a candidate, and one that is skipped
SelectGames ==
    { g \in EngineGames :
        \/ g.fen.mate \/ g.rook3 \/ UserLost(g) \/ g.result = "1/2-1/2"
        \/ g.x = {2, 3} \/ g.side = "none" }

\* before the last ply: a pawn or king move, the rook's capture with
\* discovered check, a pawn taking the queen at home, captures on d4
MiddleMoves ==
    { m \in EngineMoves :
        \/ m = QuietMove
        \/ ~m.capture /\ m.piece = "K" /\ ~m.check
        \/ m.capture /\ m.piece = "R"
        \/ m.capture /\ m.piece = "P" /\ m.victim = "Q" /\ m.to = "d1"
        \/ m.capture /\ m.victim = "P" /\ m.to = "d4" }

\* the moves replayed at the next ply: any move on the last ply
SelectMoves ==
    IF move_number + 1 < game_data.n THEN MiddleMoves ELSE EngineMoves

SelectNext ==
    \/ \E g \in SelectGames : SkipGame(g)
    \/ \E g \in SelectGames : StartGame(g)
    \/ \E m \in SelectMoves : ProcessPly(m)
    \/ ReplayError
    \/ FinishGame
    \/ EndBatch
    \/ \E d \in ANALYZER_TAGS : GetFinalResults(d)

SelectSpec == Init /\ [][SelectNext]_vars

-----------------------------------------------------------------------------
(* The scorer driven as its docstrings describe: set_other_analyzers with  *)
(* the registered detectors, finish_game_scoring after the finish_game of  *)
(* every detector, rescore_with_fallback_config between games              *)

\* a scoring table with every section finish_game_scoring reads, and one
\* pattern priced as a penalty
TunedConfig ==
    [DefaultConfig EXCEPT
       !.points = [@ EXCEPT !["checkmate_win"] = Some(10),
                            !["back_rank_mate"] = Some(35),
                            !["smothered_mate"] = Some(-20)],
       !.game_ends_before_moves =
           << [moves |-> 3, points |-> 5], [moves |-> 2, points |-> -10] >>,
       !.bullet_penalty =
           Some([enabled |-> TRUE, max_base_time_seconds |-> 179,
                 points |-> -20]),
       !.mating_piece_bonus =
           Some([p \in {"knight", "bishop", "rook", "queen"} |->
                    IF p = "knight" THEN 15 ELSE 0]),
       !.sacrifice_comeback_bonus =
           << [deficit |-> 3, points |-> 10], [deficit |-> 5, points |-> 20] >>,
       !.material_deficit_penalty = Some([threshold |-> 3, points |-> -10])]

\* a fallback table: integer values for three keys, one of them a penalty
\* written as a positive number
FallbackConfig ==
    [DefaultConfig EXCEPT
       !.points = [@ EXCEPT !["smothered_mate"] = Some(5),
                            !["checkmate_win"] = Some(40),
                            !["hung_queen"] = Some(10)]]

ScorerConfigs == {DefaultConfig, TunedConfig}

ScorerInit ==
    /\ pc = "idle"
    /\ game_data = BaseGame
    /\ move_number = 0
    /\ active_analyzers = {}
    /\ \E config \in ScorerConfigs, elo \in {None, Some(500)} :
          an = [d \in ANALYZER_TAGS |->
                  IF d = BestGame
                  THEN [analyzer_init(d) EXCEPT
                          !.config = config,
                          !.user_average_elo = elo,
                          !.other_analyzers = ANALYZER_TAGS]
                  ELSE analyzer_init(d)]
    /\ game_findings = {}
    /\ results = [d \in ANALYZER_TAGS |-> None]
    /\ hist = <<>>
    /\ calls = 0

\* wins with and without mate, at bullet and at blitz speed, and a loss
ScorerGames ==
    { g \in
      { [BaseGame EXCEPT !.n = MaxPly, !.term = "time"],
        [BaseGame EXCEPT !.n = MaxPly, !.term = "time", !.tc = Some(120)],
        [BaseGame EXCEPT !.n = MaxPly, !.result = "0-1", !.x = {2},
                         !.term = "resign"],
        [BaseGame EXCEPT !.n = MaxPly, !.result = "0-1", !.tc = Some(120),
                         !.term = "resign"],
        [BlackWin EXCEPT !.x = {2, 3}],
        [BaseGame EXCEPT !.tc = Some(30)],
        MateWin(MateSan("N"), "smothered"),
        [MateWin(MateSan("R"), "backrank") EXCEPT
             !.fen.rook_mate = TRUE, !.fen.enemy_material = 10,
             !.fen.deficit = 5, !.clock = 3, !.walk = 50],
        MateWin([MateSan("Q") EXCEPT !.dest = "f7"], "none") } :
      WellFormed(g) }

\* finish_game on every detector, then finish_game_scoring on the scorer
FinishGameScored ==
    /\ pc = "replay"
    /\ move_number = game_data.n
    /\ LET finished ==
               [d \in ANALYZER_TAGS |-> finish_game(d, an[d], game_data)]
       IN an' = [finished EXCEPT ![BestGame] =
                    BestGame_finish_game_scoring(finished[BestGame], finished,
                                                 game_data)]
    /\ game_findings' =
           { d \in ANALYZER_TAGS : finish_game_returns(d, an[d], game_data) }
    /\ hist' = [hist EXCEPT
                  ![Len(hist)] =
                      [CompletedEntry(@, game_data) EXCEPT !.run =
                          IF OneCaptureRun(an[Windmill].windmill_sequence)
                          THEN @ \cup {"open"} ELSE @]]
    /\ pc' = "idle"
    /\ game_data' = BaseGame /\ move_number' = 0 /\ active_analyzers' = {}
    /\ UNCHANGED <<results, calls>>

\* rescore_with_fallback_config, the fallback file present or not
Rescore(fallback) ==
    /\ pc = "idle"
    /\ hist # <<>>
    /\ an' = [an EXCEPT ![BestGame] =
                 BestGame_rescore_with_fallback_config(@, fallback)]
    /\ UNCHANGED <<pc, game_data, move_number, active_analyzers, game_findings,
                   results, hist, calls>>

ScorerNext ==
    \/ \E g \in ScorerGames : SkipGame(g)
    \/ \E g \in ScorerGames : StartGame(g)
    \/ \E m \in SelectMoves : ProcessPly(m)
    \/ ReplayError
    \/ FinishGameScored
    \/ \E fallback \in {None, Some(FallbackConfig)} : Rescore(fallback)
    \/ EndBatch

ScorerSpec == ScorerInit /\ [][ScorerNext]_vars

-----------------------------------------------------------------------------
(* Batches scored under the default or the tuned table and then rescored,  *)
(* once or several times, with fallback tables whose values are positive,  *)
(* zero or negative                                                        *)

ZeroFallback ==
    [FallbackConfig EXCEPT
       !.points = [@ EXCEPT !["smothered_mate"] = Some(0),
                            !["checkmate_win"] = Some(0)]]

NegativeFallback ==
    [FallbackConfig EXCEPT
       !.points = [@ EXCEPT !["smothered_mate"] = Some(-5),
                            !["checkmate_win"] = Some(-40)]]

\* a fallback table with a rating threshold the user's average is above
LowThresholdFallback == [FallbackConfig EXCEPT !.elo_threshold = Some(400)]

FallbackTables ==
    {FallbackConfig, ZeroFallback, NegativeFallback, LowThresholdFallback}

RescoreGames ==
    { g \in
      { MateWin(MateSan("N"), "smothered"),
        MateWin([MateSan("Q") EXCEPT !.dest = "f7"], "none"),
        [BaseGame EXCEPT !.n = MaxPly, !.term = "time", !.tc = Some(120)],
        [BaseGame EXCEPT !.n = MaxPly, !.result = "0-1", !.term = "resign"] } :
      WellFormed(g) }

RescoreMoves ==
    { [QuietMove EXCEPT !.piece = p, !.check = ch] :
        p \in {"P", "N", "Q"}, ch \in BOOLEAN }

RescoreNext ==
    \/ \E g \in RescoreGames : StartGame(g)
    \/ \E m \in RescoreMoves : ProcessPly(m)
    \/ FinishGameScored
    \/ \E fallback \in {None} \cup { Some(f) : f \in FallbackTables } :
          Rescore(fallback)
    \/ EndBatch

RescoreSpec == ScorerInit /\ [][RescoreNext]_vars

-----------------------------------------------------------------------------
(* Batches of games of every length scored under game-length tables given  *)
(* in ascending, descending and mixed order of their boundaries            *)

SpeedTables ==
    { << [moves |-> 1, points |-> 7], [moves |-> 2, points |-> -10],
         [moves |-> 3, points |-> 5] >>,
      << [moves |-> 3, points |-> 5], [moves |-> 2, points |-> -10],
         [moves |-> 1, points |-> 7] >>,
      << [moves |-> 3, points |-> 5], [moves |-> 1, points |-> 7] >>,
      << [moves |-> 2, points |-> -10], [moves |-> 1, points |-> 7] >>,
      << >> }

SpeedConfigs ==
    { [DefaultConfig EXCEPT !.game_ends_before_moves = t] : t \in SpeedTables }

SpeedInit ==
    /\ pc = "idle"
    /\ game_data = BaseGame
    /\ move_number = 0
    /\ active_analyzers = {}
    /\ \E config \in SpeedConfigs :
          an = [d \in ANALYZER_TAGS |->
                  IF d = BestGame
                  THEN [analyzer_init(d) EXCEPT
                          !.config = config,
                          !.other_analyzers = ANALYZER_TAGS]
                  ELSE analyzer_init(d)]
    /\ game_findings = {}
    /\ results = [d \in ANALYZER_TAGS |-> None]
    /\ hist = <<>>
    /\ calls = 0

\* wins of every length, a loss and a draw
SpeedGames ==
    { g \in
        { [BaseGame EXCEPT !.n = n] : n \in 1..MaxPly }
        \cup { [BlackWin EXCEPT !.n = n] : n \in 1..MaxPly }
        \cup { [BaseGame EXCEPT !.n = MaxPly, !.result = "0-1"],
               [BaseGame EXCEPT !.n = 2, !.result = "1/2-1/2"] } :
      WellFormed(g) }

SpeedNext ==
    \/ \E g \in SpeedGames : StartGame(g)
    \/ ProcessPly(QuietMove)
    \/ ReplayError
    \/ FinishGameScored
    \/ EndBatch

SpeedSpec == SpeedInit /\ [][SpeedNext]_vars

-----------------------------------------------------------------------------
(* Scored batches of games won by mate as Black with a final position that *)
(* is material down, in which the user's queen can be given up or not       *)

\* deficits below the penalty threshold, and at the comeback table's tiers
Deficits == {2, 3, 5}

DeficitGames ==
    { [BlackWin EXCEPT !.n = EvenN, !.x = {2, 3}, !.last = MateSan("R"),
                       !.hash = TRUE, !.term = "checkmate", !.fen.mate = TRUE,
                       !.fen.deficit = d] : d \in Deficits }
    \cup { [BlackWin EXCEPT !.x = {2, 3}] }

\* the pawn taken at ply 2 by the queen or by a pawn, the recapture
DeficitMoves ==
    { QuietMove,
      [QuietMove EXCEPT !.piece = "R", !.check = TRUE],
      [QuietMove EXCEPT !.piece = "Q", !.capture = TRUE, !.victim = "P",
                        !.to = "d4"],
      [QuietMove EXCEPT !.capture = TRUE, !.victim = "P", !.to = "d4"],
      [QuietMove EXCEPT !.capture = TRUE, !.victim = "Q", !.to = "d4"] }

DeficitNext ==
    \/ \E g \in DeficitGames : StartGame(g)
    \/ \E m \in DeficitMoves : ProcessPly(m)
    \/ ReplayError
    \/ FinishGameScored
    \/ EndBatch

DeficitSpec == ScorerInit /\ [][DeficitNext]_vars

-----------------------------------------------------------------------------
(* Batches for the queen-sacrifice detector: won games whose queen moves   *)
(* capture or give check, with and without material advantage and pin      *)

QSGames ==
    { g \in
      { [BlackWin EXCEPT !.x = {2, 3}],
        [BlackWin EXCEPT !.x = {3}],
        [BlackWin EXCEPT !.x = {3, 4}],
        \* the user's last move is a capture by a queen
        [BlackWin EXCEPT !.n = EvenN, !.x = {2, 3, EvenN},
             !.last = [SanOf("Q", FALSE, "d4") EXCEPT !.capture = TRUE]],
        [BaseGame EXCEPT !.n = MaxPly, !.x = {3, 4}],
        [BaseGame EXCEPT !.n = MaxPly, !.x = {3, 4}, !.term = "time"],
        [BaseGame EXCEPT !.side = "none"] } :
      WellFormed(g) }

\* material balances below and at the limit of _record_sacrifice
QSAdvantages == {0, 5}

\* material balance and pin of the queen: neither exclusion, each alone
QSCases == (QSAdvantages \X {FALSE}) \cup {<<0, TRUE>>}

QSMoves ==
    {QuietMove}
    \cup { [QuietMove EXCEPT !.piece = "Q", !.capture = TRUE, !.victim = "P",
                             !.to = "d4", !.adv = ap[1], !.pinned = ap[2]] :
             ap \in QSCases }
    \cup { [QuietMove EXCEPT !.piece = "Q", !.capture = TRUE, !.victim = "Q",
                             !.to = "d4"] }
    \cup { [QuietMove EXCEPT !.piece = "Q", !.check = TRUE, !.to = "d4",
                             !.adv = ap[1], !.pinned = ap[2]] :
             ap \in QSCases }
    \cup { [QuietMove EXCEPT !.capture = TRUE, !.victim = v, !.to = t] :
             v \in {"P", "Q"}, t \in {"d4", "e5"} }

QSNext ==
    \/ \E g \in QSGames : SkipGame(g)
    \/ \E g \in QSGames : StartGame(g)
    \/ \E m \in QSMoves : ProcessPly(m)
    \/ ReplayError
    \/ FinishGame
    \/ EndBatch

QSSpec == Init /\ [][QSNext]_vars

-----------------------------------------------------------------------------
(* Batches for the windmill detector: games the user won as Black whose    *)
(* text holds three rook checks, long enough for a run of rook checks and  *)
(* king moves to be ended by a later move of the same game                 *)

WindmillLen == MaxPly + 2

\* the plies of the user's first two moves
WindmillPlies == {2, 4}

WindmillGames ==
    { g \in
      { [BlackWin EXCEPT !.n = WindmillLen, !.rook3 = TRUE, !.x = x,
                         !.last = l] :
          x \in SUBSET WindmillPlies \ {{}},
          l \in { SanOf("P", FALSE, "e5"),
                  [SanOf("R", FALSE, "e5") EXCEPT !.check = TRUE] } } :
        g.last.capture = (g.n \in g.x) }

\* rook checks with and without discovered check and trapped king, a king
\* move and a pawn move
WindmillMoves ==
    { [QuietMove EXCEPT !.piece = "R", !.check = TRUE, !.capture = c,
                        !.victim = IF c THEN "P" ELSE "-",
                        !.trapped = t, !.disc = d] :
        c \in BOOLEAN, t \in BOOLEAN, d \in BOOLEAN }
    \cup { [QuietMove EXCEPT !.piece = p] : p \in {"P", "K"} }

WindmillNext ==
    \/ \E g \in WindmillGames : StartGame(g)
    \/ \E m \in WindmillMoves : ProcessPly(m)
    \/ ReplayError
    \/ FinishGame
    \/ EndBatch

WindmillSpec == Init /\ [][WindmillNext]_vars

-----------------------------------------------------------------------------
(* Batches for the back-rank detector: games won by a rook or queen mate,  *)
(* the mated king in the corner or on the g-file, on its back rank or not, *)
(* with every set of own pieces on the squares in front of it              *)

BackRankKingFiles == {6, 7}

\* sets of files in front of the king that hold its own pieces
BackRankFronts == { {}, {7}, {6, 7}, {5, 6, 7} }

\* a game won by a mate with piece p, the king on its back rank or not (kb),
\* a rook or queen attacking it from that rank or not (rq)
BackRankGame(p, side, kb, rq, kf, front) ==
    [MateWin(MateSan(p), "none") EXCEPT
         !.side = side,
         !.result = IF side = "white" THEN "1-0" ELSE "0-1",
         !.n = IF side = "white" THEN OddN ELSE EvenN,
         !.fen.rook_mate = (p = "R"),
         !.fen.king_back = kb, !.fen.rq_on_rank = rq,
         !.fen.king_file = kf, !.fen.own_front = front]

BackRankGames ==
    { g \in
        { BackRankGame(p, "white", TRUE, TRUE, kf, front) :
            p \in {"R", "Q"}, kf \in BackRankKingFiles,
            front \in BackRankFronts }
        \cup { BackRankGame("R", "white", FALSE, TRUE, 6, {5, 6, 7}),
               BackRankGame("Q", "white", TRUE, FALSE, 6, {5, 6, 7}),
               BackRankGame("Q", "black", TRUE, TRUE, 6, {5, 7}),
               BackRankGame("R", "black", TRUE, TRUE, 6, {5}) } :
      WellFormed(g) }

BackRankMoves ==
    {QuietMove}
    \cup { [QuietMove EXCEPT !.piece = p, !.check = TRUE] : p \in {"R", "Q"} }

BackRankNext ==
    \/ \E g \in BackRankGames : StartGame(g)
    \/ \E m \in BackRankMoves : ProcessPly(m)
    \/ ReplayError
    \/ FinishGame
    \/ EndBatch

BackRankSpec == Init /\ [][BackRankNext]_vars

\* back-rank mates by rook and by queen that differ in the material left to
\* the mated side and in length
BackRankMaterials == {5, 10}

BackRankSelectGames ==
    { g \in
        { [BackRankGame(p, side, TRUE, TRUE, 6, {5, 6, 7}) EXCEPT
               !.fen.enemy_material = mat, !.n = n] :
            p \in {"R", "Q"}, side \in {"white", "black"},
            mat \in BackRankMaterials, n \in 2..MaxPly } :
      WellFormed(g) /\ UserMadeLastMove(g) }

BackRankSelectNext ==
    \/ \E g \in BackRankSelectGames : StartGame(g)
    \/ \E m \in BackRankMoves : ProcessPly(m)
    \/ ReplayError
    \/ FinishGame
    \/ EndBatch
    \/ GetFinalResults(BackRankMate)

BackRankSelectSpec == Init /\ [][BackRankSelectNext]_vars

-----------------------------------------------------------------------------
(* Batches for the mate window of a queen sacrifice: games won by mate, of *)
(* up to MateWindowLen plies, in which the user's queen takes a pawn on an *)
(* early ply and is taken back                                             *)

MateWindowLen == MaxPly + 10

\* a game of n plies won by a rook mate, the user's queen capturing at ply
\* sac and being recaptured at the next
MateWindowGame(side, n, sac) ==
    [BaseGame EXCEPT !.side = side,
                     !.result = IF side = "white" THEN "1-0" ELSE "0-1",
                     !.n = n, !.x = {sac, sac + 1},
                     !.last = MateSan("R"), !.hash = TRUE,
                     !.term = "checkmate", !.fen.mate = TRUE]

MateWindowGames ==
    { MateWindowGame("black", n, sac) :
        n \in { k \in 4..MateWindowLen : k % 2 = 0 }, sac \in {2} }
    \cup { MateWindowGame("white", n, sac) :
             n \in { k \in (MateWindowLen - 3)..MateWindowLen : k % 2 = 1 },
             sac \in {3} }

MateWindowMoves ==
    { QuietMove,
      [QuietMove EXCEPT !.piece = "R", !.check = TRUE],
      [QuietMove EXCEPT !.piece = "Q", !.capture = TRUE, !.victim = "P",
                        !.to = "d4"],
      [QuietMove EXCEPT !.capture = TRUE, !.victim = "Q", !.to = "d4"] }

MateWindowNext ==
    \/ \E g \in MateWindowGames : StartGame(g)
    \/ \E m \in MateWindowMoves : ProcessPly(m)
    \/ ReplayError
    \/ FinishGame
    \/ EndBatch

MateWindowSpec == Init /\ [][MateWindowNext]_vars

-----------------------------------------------------------------------------
(* Batches for the quickest-mate tracker: mates by rook and queen of every *)
(* length, as White and as Black, queen mates on f7 and f2 and queen mates *)
(* whose text names f7 or f2 as the square the queen came from              *)

QuickestGame(side, n, last) ==
    [BaseGame EXCEPT !.side = side,
                     !.result = IF (n % 2 = 1) THEN "1-0" ELSE "0-1",
                     !.n = n, !.last = last, !.hash = TRUE,
                     !.term = "checkmate", !.fen.mate = TRUE]

QuickestGames ==
    { g \in
        { QuickestGame(side, n, [MateSan(p) EXCEPT !.dest = d, !.origin = o]) :
            side \in {"white", "black"}, n \in 2..MaxPly, p \in {"R", "Q"},
            d \in {"f7", "f2", "g8"}, o \in {"", "f7"} }
        \cup { [BlackWin EXCEPT !.x = {2, 3}] } :
      /\ WellFormed(g)
      /\ g.last.origin # g.last.dest
      \* the text names the origin square only when three queens can reach
      \* the destination: in the longest games
      /\ g.last.origin # "" => /\ g.last.piece = "Q" /\ g.last.dest = "g8"
                               /\ g.n >= MaxPly - 1 }

QuickestMoves ==
    {QuietMove}
    \cup { [QuietMove EXCEPT !.piece = p, !.check = TRUE] : p \in {"R", "Q"} }

QuickestNext ==
    \/ \E g \in QuickestGames : StartGame(g)
    \/ \E m \in QuickestMoves : ProcessPly(m)
    \/ ReplayError
    \/ FinishGame
    \/ EndBatch

QuickestSpec == Init /\ [][QuickestNext]_vars

-----------------------------------------------------------------------------
(* Batches for the trackers of the one best game: mates of every length    *)
(* with and without material deficit, low clock and hunted king,            *)
(* stalemates, a daily game, a loss and a win on time                       *)

TrackerMate(side, n, deficit, clock, walk) ==
    [QuickestGame(side, n, MateSan("R")) EXCEPT
         !.fen.deficit = deficit, !.clock = clock, !.walk = walk]

TrackerGames ==
    { g \in
        { TrackerMate("white", OddN, 3, 4, 50),
          TrackerMate("white", OddN, 5, 2, 90),
          TrackerMate("white", OddN, 0, -1, 0),
          TrackerMate("black", 2, 5, 4, 90),
          TrackerMate("black", EvenN, 3, 0, 50),
          [TrackerMate("black", EvenN, 0, 1, 0) EXCEPT !.daily = TRUE],
          [BaseGame EXCEPT !.n = MaxPly, !.result = "1/2-1/2",
                           !.term = "stalemate", !.fen.stalemated = "white",
                           !.fen.material = 10],
          [BaseGame EXCEPT !.n = 2, !.result = "1/2-1/2",
                           !.term = "stalemate", !.fen.stalemated = "white",
                           !.fen.material = 5],
          [BaseGame EXCEPT !.n = MaxPly, !.result = "0-1", !.term = "resign"],
          [BaseGame EXCEPT !.n = MaxPly, !.term = "time"] } :
      WellFormed(g) }

TrackerNext ==
    \/ \E g \in TrackerGames : StartGame(g)
    \/ \E m \in QuickestMoves : ProcessPly(m)
    \/ ReplayError
    \/ FinishGame
    \/ EndBatch

TrackerSpec == Init /\ [][TrackerNext]_vars

-----------------------------------------------------------------------------
(* Batches of a mate after a comeback, a short mate, a stalemate and a     *)
(* loss, replayed with a detector's per-move hook raising at some ply      *)

IsolationGames ==
    { g \in
        { TrackerMate("white", OddN, 5, 2, 90),
          TrackerMate("black", 2, 3, 4, 50),
          [BaseGame EXCEPT !.n = 2, !.result = "1/2-1/2",
                           !.term = "stalemate", !.fen.stalemated = "white",
                           !.fen.material = 5],
          [BaseGame EXCEPT !.n = MaxPly, !.result = "0-1", !.term = "resign"] } :
      WellFormed(g) }

IsolationNext ==
    \/ \E g \in IsolationGames : StartGame(g)
    \/ \E m \in QuickestMoves : ProcessPly(m)
    \/ \E d \in BoardHooks, m \in QuickestMoves : HookRaises(d, m)
    \/ ReplayError
    \/ FinishGame
    \/ EndBatch

IsolationSpec == Init /\ [][IsolationNext]_vars

-----------------------------------------------------------------------------
(* Batches for the hung-queen detector: games the user played as Black,    *)
(* lost by resignation or won, in which the user's queen leaves d8 for e5  *)
(* (on the file of the king on e8) or h5 (on its diagonal) and is taken    *)
(* there at once or two moves later, by a rook, bishop, knight or queen    *)
(* coming from a square between king and queen or from elsewhere           *)

HungGame(result, x) ==
    [BaseGame EXCEPT !.side = "black", !.result = result, !.term = "resign",
                     !.n = MaxPly + 2, !.x = x, !.watch = TRUE]

HungGames ==
    { HungGame("1-0", x) : x \in {{5}, {3}, {2, 3}, {4, 5}, {3, 5}} }
    \cup { HungGame("0-1", {5}) }

\* a move that takes nothing and goes to a square no queen visits
AwayMove == [QuietMove EXCEPT !.to = "d4"]

\* a capture on square t by the piece coming from f, with these squares
\* between the user's king and queen occupied
TakesOn(piece, t, f, board) ==
    [AwayMove EXCEPT !.piece = piece, !.capture = TRUE, !.victim = "Q",
                     !.to = t, !.from = f, !.board = board]

HungMoves ==
    {AwayMove, [AwayMove EXCEPT !.check = TRUE]}
    \cup { [AwayMove EXCEPT !.piece = "Q", !.to = t, !.from = "d8",
                            !.board = {"d8"}] : t \in {"e5", "h5"} }
    \cup { [AwayMove EXCEPT !.piece = "Q", !.capture = TRUE, !.victim = "P",
                            !.to = "e5", !.from = "d8", !.board = {"d8"}] }
    \cup { [AwayMove EXCEPT !.capture = TRUE, !.victim = "Q"] }
    \cup { TakesOn("R", "e5", "e6", {"e6"}),
           TakesOn("R", "e5", "e6", {"e6", "e7"}),
           TakesOn("R", "e5", "a5", {"a5"}),
           [TakesOn("R", "e5", "a5", {"a5"}) EXCEPT !.soon = TRUE],
           [TakesOn("R", "e5", "a5", {"a5"}) EXCEPT !.check = TRUE],
           TakesOn("B", "h5", "g6", {"g6"}),
           TakesOn("B", "h5", "g6", {"g6", "f7"}),
           TakesOn("B", "h5", "g4", {"g4"}),
           TakesOn("N", "e5", "g4", {"g4"}),
           TakesOn("Q", "e5", "a5", {"a5"}) }

HungNext ==
    \/ \E g \in HungGames : StartGame(g)
    \/ \E m \in HungMoves : ProcessPly(m)
    \/ ReplayError
    \/ FinishGame
    \/ EndBatch

HungSpec == Init /\ [][HungNext]_vars

-----------------------------------------------------------------------------
(* Batches of games long enough for a detector to meet its pattern twice:  *)
(* the user as Black sacrifices a queen on d4 twice, forks with a knight   *)
(* on every move, runs two windmills of which the second is open at the    *)
(* end, or has the square of the queen taken, retaken and taken again;     *)
(* every game is replayed to its end                                       *)

RepeatLen == MaxPly + 4

\* the last ply of Black
RepeatLast == IF RepeatLen % 2 = 0 THEN RepeatLen ELSE RepeatLen - 1

RepeatGames ==
    { [BlackWin EXCEPT !.n = RepeatLen, !.x = {2, 3, 6, 7}],
      [BlackWin EXCEPT !.n = RepeatLen, !.x = {}],
      [BlackWin EXCEPT !.n = RepeatLen, !.x = {2, 4, 6, RepeatLast},
           !.rook3 = TRUE,
           !.last = IF RepeatLen = RepeatLast
                    THEN [SanOf("R", FALSE, "e5") EXCEPT !.check = TRUE,
                                                         !.capture = TRUE]
                    ELSE SanOf("P", FALSE, "e4")],
      [BaseGame EXCEPT !.side = "black", !.result = "1-0", !.term = "resign",
                       !.n = RepeatLen, !.x = {3, 4, 5}] }

RepeatMoves ==
    { [QuietMove EXCEPT !.piece = p] : p \in {"P", "K"} }
    \cup { [QuietMove EXCEPT !.piece = "N", !.fork = <<"K", "R">>] }
    \cup { [QuietMove EXCEPT !.piece = "Q", !.capture = TRUE, !.victim = "P",
                             !.to = "d4"],
           [QuietMove EXCEPT !.capture = TRUE, !.victim = "Q", !.to = "d4"] }
    \cup { [QuietMove EXCEPT !.piece = "R", !.check = TRUE, !.capture = c,
                             !.victim = IF c THEN "P" ELSE "-",
                             !.trapped = TRUE, !.disc = TRUE] :
             c \in BOOLEAN }
    \cup { [QuietMove EXCEPT !.piece = "R", !.capture = TRUE, !.victim = v,
                             !.to = "d8", !.from = "d4", !.board = {"d4"}] :
             v \in {"Q", "R"} }

RepeatNext ==
    \/ \E g \in RepeatGames : StartGame(g)
    \/ \E m \in RepeatMoves : ProcessPly(m)
    \/ FinishGame
    \/ EndBatch

RepeatSpec == Init /\ [][RepeatNext]_vars

-----------------------------------------------------------------------------
(* Batches of games that end with castling: with and without mate, won and *)
(* lost, on either wing, and with the Termination header of either site    *)
(* the games are fetched from (chess.com: "<name> won by checkmate";       *)
(* lichess: "Normal"), or without one                                      *)

CastleGame(san, tail, term) ==
    [MateWin(san, "none") EXCEPT !.tail = tail, !.term = term]

CastleGames ==
    { g \in
        { CastleGame(SanOf(p[1], FALSE, p[2]), p[3], t) :
            p \in { <<"O-O", "g1", "O-O#">>, <<"O-O-O", "c1", "O-O-O#">> },
            t \in {"checkmate", "none", "normal"} }
        \cup
      { \* the opponent mates by castling
        [CastleGame(SanOf("O-O", FALSE, "g1"), "O-O#", "checkmate")
             EXCEPT !.side = "black"],
        \* the user mates by castling as Black
        [CastleGame(SanOf("O-O", FALSE, "g8"), "O-O#", "checkmate")
             EXCEPT !.side = "black", !.result = "0-1", !.n = EvenN],
        \* the last move castles without mate and the opponent resigns
        [BaseGame EXCEPT !.n = OddN, !.result = "1-0", !.term = "resign",
                         !.last = SanOf("O-O", FALSE, "g1")],
        [BaseGame EXCEPT !.n = OddN, !.result = "1-0",
                         !.last = SanOf("O-O-O", FALSE, "c1")],
        \* mate by another piece
        MateWin(MateSan("Q"), "none") } :
      WellFormed(g) }

CastleMoves ==
    { QuietMove,
      [QuietMove EXCEPT !.piece = "Q", !.check = TRUE, !.to = "e5"] }
    \cup
    { [QuietMove EXCEPT !.piece = "K", !.check = ch, !.castle = w[1],
                        !.to = w[2]] :
        w \in { <<"short", "g1">>, <<"short", "g8">>, <<"long", "c1">> },
        ch \in BOOLEAN }

CastleNext ==
    \/ \E g \in CastleGames : StartGame(g)
    \/ \E m \in CastleMoves : ProcessPly(m)
    \/ ReplayError
    \/ FinishGame
    \/ EndBatch

CastleSpec == Init /\ [][CastleNext]_vars

-----------------------------------------------------------------------------
(* Batches of games won by a knight's mate, smothered or not, at different *)
(* plies and in either order, followed by the selection                    *)

SmotheredGames ==
    { g \in
      { MateWin(MateSan("N"), "smothered"),
        [MateWin(MateSan("N"), "smothered") EXCEPT
             !.side = "black", !.result = "0-1", !.n = 2],
        [MateWin(MateSan("N"), "smothered") EXCEPT
             !.side = "black", !.result = "0-1", !.n = EvenN],
        MateWin(MateSan("N"), "none"),
        MateWin(MateSan("Q"), "none"),
        BaseGame } :
      WellFormed(g) }

SmotheredMoves ==
    { [QuietMove EXCEPT !.piece = p, !.check = ch] :
        p \in {"P", "N", "Q"}, ch \in BOOLEAN }

SmotheredNext ==
    \/ \E g \in SmotheredGames : StartGame(g)
    \/ \E m \in SmotheredMoves : ProcessPly(m)
    \/ ReplayError
    \/ FinishGame
    \/ EndBatch
    \/ GetFinalResults(SmotheredMate)

SmotheredSpec == Init /\ [][SmotheredNext]_vars


-----------------------------------------------------------------------------
(* Games in which knights move onto squares from which they attack none,   *)
(* one, two or three pieces, on the user's and on the opponent's plies     *)

\* the pieces a knight attacks from its new square
ForkTargets ==
    { <<>>, <<"K">>, <<"B", "N", "P">>, <<"R", "N">>, <<"K", "P">> }

ForkLen == MaxPly + 1

ForkGames ==
    { [g EXCEPT !.watch = TRUE, !.last = SanOf("N", FALSE, "e5")] :
        g \in { [BaseGame EXCEPT !.n = ForkLen],
                [BlackWin EXCEPT !.n = MaxPly],
                [BaseGame EXCEPT !.n = MaxPly, !.side = "black"],
                [BlackWin EXCEPT !.n = MaxPly, !.term = "time"],
                [BlackWin EXCEPT !.n = MaxPly, !.elo_low = TRUE] } }

ForkMoves ==
    { [QuietMove EXCEPT !.piece = "N", !.fork = f] : f \in ForkTargets }
    \cup { QuietMove,
           [QuietMove EXCEPT !.piece = "Q", !.fork = <<"K", "R">>] }

ForkNext ==
    \/ \E g \in ForkGames : StartGame(g)
    \/ \E m \in ForkMoves : ProcessPly(m)
    \/ ReplayError
    \/ FinishGame
    \/ EndBatch

ForkSpec == Init /\ [][ForkNext]_vars


-----------------------------------------------------------------------------
(* Logged games for which the pre-filters leave different detectors        *)
(* active: a win by mate, a win without mate, a loss by mate, a loss       *)
(* without mate and a draw                                                 *)

DispatchGames ==
    { [g EXCEPT !.log = TRUE] :
        g \in { MateWin(MateSan("Q"), "none"),
                [BaseGame EXCEPT !.n = MaxPly],
                [BlackWin EXCEPT !.n = MaxPly - 1],
                [MateWin(MateSan("Q"), "none") EXCEPT !.side = "black"],
                [BaseGame EXCEPT !.n = MaxPly, !.result = "0-1"],
                [BaseGame EXCEPT !.n = MaxPly, !.result = "1/2-1/2"] } }

DispatchMoves ==
    { QuietMove, [QuietMove EXCEPT !.piece = "N"] }

DispatchNext ==
    \/ \E g \in DispatchGames : StartGame(g)
    \/ \E m \in DispatchMoves : ProcessPly(m)
    \/ ReplayError
    \/ FinishGame
    \/ EndBatch

DispatchSpec == Init /\ [][DispatchNext]_vars

-----------------------------------------------------------------------------
(* Batches of games given by their White, Black and TimeControl headers:   *)
(* the user's name in several spellings on either side, other players,     *)
(* and time controls on both sides of one minute                           *)

\* the game with these headers: a mate by the user, or by White when the
\* user is neither player
HeaderGame(white, black, time_control) ==
    LET side == user_side(white, black)
        g == IF side = "black" THEN QuickestGame("black", EvenN, MateSan("R"))
             ELSE QuickestGame(side, OddN, MateSan("R"))
    IN [g EXCEPT !.headers = Some([white |-> white, black |-> black,
                                   time_control |-> time_control]),
                 !.tc = base_time(time_control),
                 !.daily = (time_control = Some(<<OtherText>>))]

HeaderNames ==
    { <<<<"A", "b">>, <<"B", "a">>>>, <<<<"a", "B">>, <<"B", "a">>>>,
      <<<<"B", "a">>, <<"a", "b">>>>, <<<<"B", "a">>, <<"a">>>>,
      <<<<"a">>, <<"b", "A">>>> }

HeaderTimeControls ==
    { None, Some(<<NumberText(300)>>), Some(<<NumberText(599), NumberText(10)>>),
      Some(<<NumberText(600), NumberText(0)>>), Some(<<OtherText>>) }

HeaderGames ==
    { g \in { HeaderGame(p[1], p[2], t) :
                 p \in HeaderNames, t \in HeaderTimeControls } :
      WellFormed(g) }

HeaderNext ==
    \/ \E g \in HeaderGames : SkipGame(g)
    \/ \E g \in HeaderGames : StartGame(g)
    \/ \E m \in QuickestMoves : ProcessPly(m)
    \/ ReplayError
    \/ FinishGame
    \/ EndBatch

HeaderSpec == Init /\ [][HeaderNext]_vars

-----------------------------------------------------------------------------
(* Properties                                                              *)

Range(f) == { f[i] : i \in DOMAIN f }
RefGames(refs) == { r.game_data : r \in Range(refs) }
OptGame(ref) == IF IsSome(ref) THEN {Val(ref).game_data} ELSE {}

SingleRefAnalyzers ==
    {QuickestMate, KingWalk, BiggestComeback, ClutchWin, BestGame, LongestGame,
     Stalemate}
ListAnalyzers == ANALYZER_TAGS \ SingleRefAnalyzers

\* the batch-scoped list of candidates of a detector that keeps a list
Accumulator(d) ==
    CASE d = QueenSacrifice -> an[d].all_sacrifice_refs
      [] d = KnightFork -> an[d].all_fork_refs
      [] d = CastleMate -> an[d].all_castle_mates
      [] d = HungQueen -> an[d].all_hung_queen_refs
      [] d = CaptureSequence -> an[d].all_sequence_refs
      [] d = Windmill -> an[d].all_windmill_refs
      [] OTHER -> an[d].all_findings

\* the single stored candidate of a detector that keeps the best one
StoredRef(d) ==
    CASE d = QuickestMate -> an[d].quickest_game_ref
      [] d = KingWalk -> an[d].best_king_walk_ref
      [] d = BiggestComeback -> an[d].biggest_deficit_ref
      [] d = ClutchWin -> an[d].clutch_game_ref
      [] d = BestGame -> an[d].best_game_ref
      [] d = LongestGame -> an[d].longest_game_ref
      [] d = Stalemate -> an[d].max_material_stalemate_ref

\* the games (by position in the batch) detector d holds a candidate for
CandidateGames(d) ==
    IF d \in ListAnalyzers THEN RefGames(Accumulator(d))
    ELSE IF d = BestGame
    THEN OptGame(StoredRef(d)) \cup RefGames(an[d].all_game_refs)
    ELSE OptGame(StoredRef(d))

BatchDone == pc = "select"

(* C1: once analyze_games has returned, no detector named in WIN_ANALYZERS *)
(* holds a candidate that refers to a game the user did not win.           *)
C1_WinOnlyDetectorsKeepOnlyWins ==
    BatchDone =>
        \A d \in WIN_ANALYZERS \cap ANALYZER_TAGS :
            \A i \in CandidateGames(d) : hist[i].won

(* C2: once analyze_games has returned, no detector named in               *)
(* MATE_ANALYZERS holds a candidate that refers to a game whose last move  *)
(* string has no '#'.                                                      *)
C2_MateDetectorsKeepOnlyMates ==
    BatchDone =>
        \A d \in MATE_ANALYZERS \cap ANALYZER_TAGS :
            \A i \in CandidateGames(d) : hist[i].mate

(* C3: a game whose replay failed has no candidate in any detector's       *)
(* accumulator, and analyze_game returned nothing for it.                  *)
C3_AbortedGameLeavesNoCandidate ==
    \A i \in 1..Len(hist) :
        hist[i].outcome = "aborted" =>
            /\ \A d \in ANALYZER_TAGS : i \notin CandidateGames(d)
            /\ (i = Len(hist) /\ pc = "idle") => game_findings = {}

JustStarted == pc = "replay" /\ move_number = 0

(* C4: immediately after start_game the queen-sacrifice detector's pending *)
(* check-sacrifice fields and the hung-queen detector's found flag and     *)
(* just-moved/just-captured trackers hold their initial values.            *)
C4_StartGameResetsPerGameFields ==
    JustStarted =>
        /\ an[QueenSacrifice].potential_check_sacrifice = None
        /\ ~an[QueenSacrifice].check_sacrifice_recaptured
        /\ an[QueenSacrifice].check_sacrifice_recapture_move = 0
        /\ ~an[HungQueen].hung_queen_found
        /\ an[HungQueen].user_queen_just_moved_to_square = ""
        /\ an[HungQueen].user_queen_just_captured_square = ""
        /\ ~an[HungQueen].opponent_just_gave_check

Completed == { i \in 1..Len(hist) : hist[i].outcome = "completed" }

(* C5: between games, every game replayed to completion has exactly one    *)
(* entry in the scorer's stored breakdowns.                                *)
C5_EveryCompletedGameScoredOnce ==
    pc # "replay" =>
        \A i \in Completed :
            Cardinality({ k \in 1..Len(an[BestGame].all_game_refs) :
                            an[BestGame].all_game_refs[k].game_data = i }) = 1

IsPrefix(a, b) == Len(a) <= Len(b) /\ SubSeq(b, 1, Len(a)) = a

NoGameInReplay == \A i \in 1..Len(hist) : hist[i].outcome # "replay"

(* C6: get_final_results returns a value only once analyze_games is over,  *)
(* no game being in replay; until then every list accumulator only grows   *)
(* at its end and every stored best candidate stays stored, and selection  *)
(* keeps the number of candidates and the games they belong to (a detector *)
(* whose fields a step leaves alone satisfies this at once).               *)
C6_SelectionAfterWholeBatch ==
    [][ /\ results' # results => pc' = "select" /\ NoGameInReplay
        /\ \A d \in ListAnalyzers :
              \/ an'[d] = an[d]
              \/ IF pc' = "select"
                 THEN /\ Len(Accumulator(d)') = Len(Accumulator(d))
                      /\ RefGames(Accumulator(d)') = RefGames(Accumulator(d))
                 ELSE IsPrefix(Accumulator(d), Accumulator(d)')
        /\ \A d \in SingleRefAnalyzers :
              \/ an'[d] = an[d]
              \/ IsSome(StoredRef(d)) => IsSome(StoredRef(d)') ]_vars

\* selection ran on an accumulator holding candidates of two games
C6_Witness ==
    /\ pc = "select"
    /\ \E d \in ListAnalyzers :
          /\ Cardinality(RefGames(Accumulator(d))) >= 2
          /\ Val(results[d]) # <<>>

\* the totals of the scored games, in ingestion order
ScoredTotals == [i \in 1..Len(an[BestGame].all_game_refs) |->
                   an[BestGame].all_game_refs[i].total_points]

\* the first position holding the greatest element of a non-empty sequence
FirstMax(totals) ==
    CHOOSE i \in 1..Len(totals) :
        /\ \A j \in 1..Len(totals) : totals[j] <= totals[i]
        /\ \A j \in 1..(i - 1) : totals[j] < totals[i]

(* C7: after any sequence of scored games and rescoring passes the best   *)
(* game is the earliest scored game whose total is the greatest total of  *)
(* all scored games, and the best score is that total; so a later game    *)
(* with an equal total never replaces it, also when totals are negative   *)
C7_BestIsEarliestMaximum ==
    LET s == an[BestGame] IN
    IF s.all_game_refs = <<>>
    THEN s.best_game_ref = None /\ s.best_game_score = None
    ELSE /\ s.best_game_ref = Some(s.all_game_refs[FirstMax(ScoredTotals)])
         /\ s.best_game_score = Some(ScoredTotals[FirstMax(ScoredTotals)])

\* two scored games tie on the greatest total, which is negative
C7_Witness ==
    LET s == an[BestGame] IN
    /\ Len(s.all_game_refs) >= 2
    /\ \E i, j \in 1..Len(s.all_game_refs) :
          /\ i < j /\ i = FirstMax(ScoredTotals)
          /\ ScoredTotals[j] = ScoredTotals[i] /\ ScoredTotals[i] < 0
          /\ Val(s.best_game_ref).game_data = s.all_game_refs[i].game_data
          /\ s.all_game_refs[j].game_data # s.all_game_refs[i].game_data

(* C8: a call of get_final_results that follows another one, no game       *)
(* processed in between, returns for every detector what the call before   *)
(* returned.                                                               *)
C8_SelectionIdempotent ==
    [][ pc = "select" => results' = results ]_vars

\* a further call was made on a detector whose first two candidates tie on
\* the sort key (two king mates at the same move number)
C8_Witness ==
    /\ pc = "select" /\ calls >= 1
    /\ Len(an[KingMate].all_findings) >= 2
    /\ an[KingMate].all_findings[1].move_number
         = an[KingMate].all_findings[2].move_number
    /\ Val(results[KingMate]) # <<>>

\* the queen-sacrifice detector takes part in the game in replay
QueenSacrificeRuns ==
    /\ pc = "replay" /\ QueenSacrifice \in active_analyzers
    /\ ~an[QueenSacrifice].exclude_time_win /\ ~an[QueenSacrifice].elo_too_low

\* the step replays a ply at which the user's queen takes a queen
QueenTakesQueenStep ==
    /\ pc = "replay" /\ pc' = "replay" /\ move_number' = move_number + 1
    /\ move_number' \in hist'[Len(hist')].qxq

\* no pending or recorded sacrifice names a ply, of its game, at which the
\* user's queen took a queen
NoSacrificeAtQueenTrade ==
    LET s == an[QueenSacrifice] IN
    /\ \A i \in 1..Len(s.all_sacrifice_refs) :
          LET r == s.all_sacrifice_refs[i] IN
          /\ ~r.g_qxq
          /\ r.sacrifice_move_number \notin hist[r.game_data].qxq
    /\ pc = "replay" /\ IsSome(s.potential_sacrifice) =>
          /\ ~Val(s.potential_sacrifice).g_qxq
          /\ Val(s.potential_sacrifice).sacrifice_move_number
                \notin hist[Len(hist)].qxq

(* C9: a ply at which the user's queen takes the opponent's queen creates *)
(* no potential sacrifice and records no candidate, and no pending or     *)
(* recorded sacrifice ever names such a ply of its game.                  *)
C9_QueenTradeIsNoSacrifice ==
    [][ /\ QueenTakesQueenStep =>
              /\ an'[QueenSacrifice].potential_sacrifice
                    \in {None, an[QueenSacrifice].potential_sacrifice}
              /\ an'[QueenSacrifice].all_sacrifice_refs
                    = an[QueenSacrifice].all_sacrifice_refs
        /\ NoSacrificeAtQueenTrade' ]_vars

\* the user's queen has just taken a queen in a won game the detector
\* processes, a capture by the queen having raised a potential before
C9_Witness ==
    /\ QueenSacrificeRuns /\ an[QueenSacrifice].user_won
    /\ move_number \in hist[Len(hist)].qxq
    /\ \/ an[QueenSacrifice].all_sacrifice_refs # <<>>
       \/ an[QueenSacrifice].our_queen_was_recaptured

\* the candidates recorded so far were raised with a material advantage
\* below 5 and an unpinned queen, and sacrifice_found is set only for a game
\* that has such a candidate
OnlySoundSacrifices ==
    LET s == an[QueenSacrifice] IN
    /\ \A i \in 1..Len(s.all_sacrifice_refs) :
          s.all_sacrifice_refs[i].g_adv < 5 /\ ~s.all_sacrifice_refs[i].g_pinned
    /\ s.sacrifice_found =>
          \E i \in 1..Len(s.all_sacrifice_refs) :
              s.all_sacrifice_refs[i].game_data = s.game_data

(* C10: a potential sacrifice raised with a material advantage of 5 or    *)
(* more, or from a pinned square, is dropped by _record_sacrifice on the   *)
(* capture path and on the check path: the accumulator and sacrifice_found *)
(* stay as they were.                                                      *)
C10_AdvantageOrPinIsNoSacrifice ==
    [][ /\ an'[QueenSacrifice].g_rejected # an[QueenSacrifice].g_rejected =>
              /\ an'[QueenSacrifice].all_sacrifice_refs
                    = an[QueenSacrifice].all_sacrifice_refs
              /\ ~an'[QueenSacrifice].sacrifice_found
              /\ an'[QueenSacrifice].potential_sacrifice = None
        /\ OnlySoundSacrifices' ]_vars

\* _record_sacrifice has dropped a potential on each path, one for the
\* advantage of exactly 5 and one for the pin
C10_Witness ==
    \E a, b \in an[QueenSacrifice].g_rejected :
        /\ a.path = "capture" /\ b.path = "check"
        /\ \E r \in {a, b} : r.g_adv = 5 /\ ~r.g_pinned
        /\ \E r \in {a, b} : r.g_adv < 5 /\ r.g_pinned


\* every recorded windmill comes from a run with two captures and a
\* discovered check among its rook checks
OnlyTrueWindmills ==
    \A i \in 1..Len(an[Windmill].all_windmill_refs) :
        LET r == an[Windmill].all_windmill_refs[i] IN
        RunCaptures(r.sequence) >= 2 /\ RunDiscovered(r.sequence) >= 1

(* C11: every windmill candidate comes from a run whose rook checks hold  *)
(* at least 2 captures and at least 1 discovered check, and a step that   *)
(* ends a run with fewer than 2 captures among its rook checks, a later   *)
(* move or the end of the game, adds no candidate.                         *)
C11_WindmillNeedsTwoCaptures ==
    [][ /\ ( /\ an[Windmill].windmill_sequence # <<>>
             /\ an'[Windmill].windmill_sequence = <<>>
             /\ RunCaptures(an[Windmill].windmill_sequence) < 2 )
           => an'[Windmill].all_windmill_refs = an[Windmill].all_windmill_refs
        /\ OnlyTrueWindmills' ]_vars

\* two games left no candidate although each held a run of two rook checks
\* with one capture and a discovered check: in game 1 the run was ended by
\* a later move, in game 2 it was open at the end of the game
C11_Witness ==
    /\ Len(hist) = 2 /\ pc = "idle"
    /\ hist[1].outcome = "completed" /\ hist[2].outcome = "completed"
    /\ hist[1].run = {"ended"} /\ hist[2].run = {"open"}
    /\ an[Windmill].all_windmill_refs = <<>>


\* the game in replay was won by the user's rook or queen mate on the last ply
WonByRookOrQueenMate(g) ==
    /\ UserWon(g) /\ g.fen.mate /\ g.last.mate /\ g.last.piece \in {"R", "Q"}
    /\ (g.n % 2 = 1) = (g.side = "white")

BackRankFindings == an[BackRankMate].all_findings

FullMove(k) == IF k % 2 = 0 THEN k \div 2 ELSE (k \div 2) + 1

SacrificeRefs == an[QueenSacrifice].all_sacrifice_refs

(* C13: when a queen sacrifice at ply s is recorded in a game the user    *)
(* wins by checkmate at final ply n, with d = ceil(n/2) - ceil(s/2), the  *)
(* recorded mate window is d if 1 <= d <= 5 and unset (0) otherwise.       *)
C13_MateWindowOneToFive ==
    [][ ( /\ pc = "replay"
          /\ Len(SacrificeRefs') = Len(SacrificeRefs) + 1
          /\ UserWon(game_data) /\ LastHasMate(game_data) )
        => LET r == Last(SacrificeRefs')
               d == FullMove(game_data.n) - FullMove(r.sacrifice_move_number)
           IN /\ r.game_data = Len(hist)
              /\ r.moves_to_mate = IF 1 <= d /\ d <= 5 THEN d ELSE 0 ]_vars

\* the first game's sacrifice was recorded with window 5, the sacrifice of
\* the second game, in replay, lies 6 full moves before its mate and was
\* recorded with the window unset
C13_Witness ==
    /\ Len(hist) = 2 /\ pc = "replay"
    /\ Len(SacrificeRefs) = 2
    /\ SacrificeRefs[1].game_data = 1 /\ SacrificeRefs[1].moves_to_mate = 5
    /\ SacrificeRefs[2].game_data = 2 /\ SacrificeRefs[2].moves_to_mate = 0
    /\ LastHasMate(game_data) /\ UserWon(game_data)
    /\ FullMove(game_data.n) - FullMove(SacrificeRefs[2].sacrifice_move_number)
         = 6

\* the completed games the user won by mate whose last move is not a queen
\* move to f7 or f2
QuickMates ==
    { i \in Completed : hist[i].plies > 0 /\ ~hist[i].scholar }

(* C14: between games and after the batch, the quickest-mate candidate is *)
(* never a game whose final move is a queen mate on f7 or f2, and it is a *)
(* game of the fewest plies among the other completed games the user won  *)
(* by checkmate (no candidate if there is none).                           *)
C14_QuickestAmongNonScholarMates ==
    pc # "replay" =>
        LET ref == an[QuickestMate].quickest_game_ref IN
        /\ IsSome(ref) => ~hist[Val(ref).game_data].scholar
        /\ IF QuickMates = {} THEN ~IsSome(ref)
           ELSE /\ IsSome(ref)
                /\ Val(ref).game_data \in QuickMates
                /\ \A j \in QuickMates :
                       hist[Val(ref).game_data].plies <= hist[j].plies

\* candidate a is at least as good as candidate b: rook before queen, then
\* more material left to the mated side, then fewer plies
BackRankNoWorse(a, b) ==
    \/ a.is_rook_mate /\ ~b.is_rook_mate
    \/ /\ a.is_rook_mate = b.is_rook_mate
       /\ \/ a.enemy_material > b.enemy_material
          \/ /\ a.enemy_material = b.enemy_material
             /\ a.final_move_number <= b.final_move_number

RescoreStep ==
    /\ pc = "idle" /\ pc' = "idle" /\ hist' = hist
    /\ an'[BestGame] # an[BestGame]

Magnitude(v) == IF v < 0 THEN -v ELSE v

\* the keys of the fallback table in force that hold a plain number
NumericKeys(config) == { k \in PointKeys : IsSome(config.points[k]) }

(* C16: a fallback rescoring pass gives every breakdown entry whose key   *)
(* holds a plain number in the fallback table that number, negated if the *)
(* original entry was negative, keeps every other entry, keeps the games  *)
(* the entries belong to, and replays nothing: the other detectors and    *)
(* the replay position are unchanged.                                     *)
C16_RescoreTakesNumericKeysOnly ==
    [][ RescoreStep =>
          LET old == an[BestGame].all_game_refs
              new == an'[BestGame].all_game_refs
              table == an'[BestGame].config
          IN /\ Len(new) = Len(old)
             /\ \A i \in 1..Len(old) :
                   /\ new[i].game_data = old[i].game_data
                   /\ \A k \in BreakdownKeys :
                         LET o == old[i].breakdown[k] IN
                         new[i].breakdown[k] =
                             IF k \in NumericKeys(table) /\ o # 0
                             THEN IF o < 0
                                  THEN -Magnitude(Val(table.points[k]))
                                  ELSE Val(table.points[k])
                             ELSE o
             /\ \A d \in ANALYZER_TAGS \ {BestGame} : an'[d] = an[d]
             /\ UNCHANGED <<game_data, move_number, active_analyzers,
                            game_findings, results>> ]_vars

\* after a rescoring pass a scored game holds the fallback's smothered-mate
\* value with the sign of the penalty it was, and a scored game holds the
\* fallback's checkmate bonus together with a speed entry of the original
\* table
C16_Witness ==
    LET s == an[BestGame] IN
    /\ pc = "idle" /\ s.config = FallbackConfig
    /\ \E i \in 1..Len(s.all_game_refs) :
          s.all_game_refs[i].breakdown["smothered_mate"]
            = -Val(FallbackConfig.points["smothered_mate"])
    /\ \E i \in 1..Len(s.all_game_refs) :
          /\ s.all_game_refs[i].breakdown["checkmate_win"]
               = Val(FallbackConfig.points["checkmate_win"])
          /\ s.all_game_refs[i].breakdown["game_speed"] # 0

\* the threshold rescore_with_fallback_config reads from the fallback table
FallbackThreshold(config) ==
    IF IsSome(config.elo_threshold) THEN Val(config.elo_threshold) ELSE 600

ScoresWonGameWithDeficit ==
    /\ pc = "replay" /\ pc' = "idle"
    /\ Len(an'[BestGame].all_game_refs) = Len(an[BestGame].all_game_refs) + 1
    /\ UserWon(game_data)
    /\ an'[BiggestComeback].current_game_deficit > 0

\* the points of the highest tier of the comeback table the deficit reaches
ComebackTier(config, deficit) ==
    LET tiers == config.sacrifice_comeback_bonus
        reached == { i \in 1..Len(tiers) : tiers[i].deficit <= deficit }
    IN IF reached = {} THEN 0
       ELSE tiers[CHOOSE i \in reached :
                     \A j \in reached : tiers[j].deficit <= tiers[i].deficit]
              .points

\* the penalty of the table for a deficit at or above its threshold
DeficitPenalty(config, deficit) ==
    IF IsSome(config.material_deficit_penalty)
       /\ deficit >= Val(config.material_deficit_penalty).threshold
    THEN Val(config.material_deficit_penalty).points ELSE 0

(* C18 as stated: the breakdown of every scored game the user won with a  *)
(* material deficit holds exactly one of sacrifice_comeback and           *)
(* material_deficit_penalty: the bonus when a sacrifice was found in the  *)
(* game, the penalty when none was.                                        *)
C18_ExactlyOneOfBonusAndPenalty ==
    [][ ScoresWonGameWithDeficit =>
          LET b == Last(an'[BestGame].all_game_refs).breakdown IN
          IF an'[QueenSacrifice].sacrifice_found
          THEN b["sacrifice_comeback"] # 0 /\ b["material_deficit_penalty"] = 0
          ELSE b["sacrifice_comeback"] = 0 /\ b["material_deficit_penalty"] # 0
      ]_vars

(* C18 amended: the breakdown of every scored game the user won with a    *)
(* material deficit holds at most one of the two entries: the comeback    *)
(* bonus only when a sacrifice was found in the game, and then exactly    *)
(* when the deficit reaches a tier of the comeback table with positive    *)
(* points, the penalty only when none was found, and then exactly when    *)
(* the deficit reaches the penalty threshold and the penalty is not zero. *)
C18_AtMostOneOfBonusAndPenalty ==
    [][ ScoresWonGameWithDeficit =>
          LET b == Last(an'[BestGame].all_game_refs).breakdown
              config == an[BestGame].config
              deficit == an'[BiggestComeback].current_game_deficit
              bonus == ComebackTier(config, deficit)
          IN /\ b["sacrifice_comeback"] = 0 \/ b["material_deficit_penalty"] = 0
             /\ IF an'[QueenSacrifice].sacrifice_found
                THEN /\ b["sacrifice_comeback"] = IF bonus > 0 THEN bonus ELSE 0
                     /\ b["material_deficit_penalty"] = 0
                ELSE /\ b["sacrifice_comeback"] = 0
                     /\ b["material_deficit_penalty"]
                          = DeficitPenalty(config, deficit) ]_vars

\* two games won with a material deficit were scored under the table with
\* tiers: the first with a sacrifice holds the bonus of the highest tier
\* and no penalty, the second without a sacrifice holds neither entry
C18_Witness ==
    LET refs == an[BestGame].all_game_refs IN
    /\ pc = "idle" /\ Len(refs) = 2 /\ an[BestGame].config = TunedConfig
    /\ hist[1].mate /\ hist[1].won /\ hist[2].mate /\ hist[2].won
    /\ refs[1].breakdown["sacrifice_comeback"] = 20
    /\ refs[1].breakdown["material_deficit_penalty"] = 0
    /\ Len(an[QueenSacrifice].all_sacrifice_refs) = 1
    /\ refs[2].breakdown["sacrifice_comeback"] = 0
    /\ refs[2].breakdown["material_deficit_penalty"] = 0

\* measure a is strictly better than measure b for tracker d
Better(d, a, b) ==
    IF d \in {QuickestMate, ClutchWin} THEN a < b ELSE a > b

\* the completed games that qualify for tracker d
Qualifying(d) == { i \in Completed : hist[i].measure[d] >= 0 }

(* C19: between games and after the batch, each tracker of the one best   *)
(* game (longest game, quickest mate, biggest comeback, clutch win,       *)
(* stalemate with most material, king walk) retains the earliest          *)
(* completed game among the qualifying ones that attain the best          *)
(* measure, and none if no game qualifies: a later game with an equal     *)
(* measure never replaces it.                                              *)
C19_TrackersKeepEarliestBest ==
    pc # "replay" =>
        \A d \in Trackers :
            IF Qualifying(d) = {} THEN ~IsSome(StoredRef(d))
            ELSE /\ IsSome(StoredRef(d))
                 /\ LET r == Val(StoredRef(d)).game_data IN
                    /\ r \in Qualifying(d)
                    /\ \A j \in Qualifying(d) :
                          /\ ~Better(d, hist[j].measure[d], hist[r].measure[d])
                          /\ j < r =>
                                Better(d, hist[r].measure[d], hist[j].measure[d])

\* two completed games tie on the measure of every tracker but the
\* stalemate one, both qualify, and each of these trackers retains game 1
C19_Witness ==
    /\ pc = "idle" /\ Len(hist) = 2 /\ Completed = {1, 2}
    /\ \A d \in Trackers \ {Stalemate} :
          /\ hist[1].measure[d] >= 0
          /\ hist[1].measure[d] = hist[2].measure[d]
          /\ Val(StoredRef(d)).game_data = 1

\* two names are equal up to the case of their letters
SameLetter(x, y) ==
    x = y \/ {x, y} \in {{"A", "a"}, {"B", "b"}}

EqualIgnoringCase(a, b) ==
    Len(a) = Len(b) /\ \A i \in 1..Len(a) : SameLetter(a[i], b[i])

\* neither player of the game with headers h is the user
NotTheUsersGame(h) ==
    ~EqualIgnoringCase(h.white, UserName) /\ ~EqualIgnoringCase(h.black, UserName)

\* the time control of h states a base time below 60 seconds
BaseTimeBelowMinute(h) ==
    /\ IsSome(h.time_control)
    /\ Val(h.time_control)[1].numeric
    /\ Val(h.time_control)[1].tenths < 600

\* this step takes in one more game
TakesInGame == Len(hist') = Len(hist) + 1

(* C20: taking in a game in which neither player's name equals the       *)
(* user's up to case, or whose time control has a base time below 60     *)
(* seconds, runs no hook: every detector's per-game and batch state, the *)
(* set of active detectors and the replay position stay as they were.    *)
C20_SkippedGameTouchesNothing ==
    [][ (/\ TakesInGame
         /\ IsSome(hist'[Len(hist')].headers)
         /\ \/ NotTheUsersGame(Val(hist'[Len(hist')].headers))
            \/ BaseTimeBelowMinute(Val(hist'[Len(hist')].headers)))
        => /\ an' = an
           /\ UNCHANGED <<pc, game_data, move_number, active_analyzers,
                          results>> ]_vars

\* after a completed game that left a longest game behind, a 59.9-second
\* game of the user under another spelling of the name was skipped
C20_Witness ==
    /\ Len(hist) = 2 /\ pc = "idle"
    /\ hist[1].outcome = "completed" /\ hist[2].outcome = "skipped"
    /\ IsSome(an[LongestGame].longest_game_ref)
    /\ IsSome(hist[2].headers)
    /\ Val(hist[2].headers).white = <<"a", "B">>
    /\ Val(hist[2].headers).time_control = Some(<<NumberText(599), NumberText(10)>>)

\* a stored candidate that already carries the ratings and the replay window
Hydrated(ref) == "game_metadata" \in DOMAIN ref

(* C21: while the batch is being replayed, before the selection hooks run, *)
(* no candidate held in any detector's accumulator is hydrated: ratings    *)
(* and replay window are built only inside the selection hook.             *)
C21_NoHydrationBeforeSelection ==
    pc # "select" =>
        \A d \in ListAnalyzers :
            \A i \in 1..Len(Accumulator(d)) : ~Hydrated(Accumulator(d)[i])

\* the detectors whose process_move is the statement pass: what a game
\* leaves in them does not depend on the moves replayed
PassHooks ==
    ANALYZER_TAGS \ {QueenSacrifice, KnightFork, SmotheredMate, KingMate,
                     CastleMate, QuickestMate, LongestGame, HungQueen, Windmill}

\* this step is a per-move hook raising
HookRaisesStep ==
    /\ pc = "replay" /\ pc' = "idle"
    /\ IsSome(hist'[Len(hist')].raised)

(* C22: when the per-move hook of one detector raises during a game, the  *)
(* engine leaves every other detector in the state, and returns for the   *)
(* game the findings, of a run without the raising detector: a detector   *)
(* that ignores the moves has finished the game, and when the hook raised *)
(* at the last ply every other detector has processed that ply and        *)
(* finished the game.                                                      *)
C22_RaisingHookLeavesOthersAsIfAbsent ==
    [][ HookRaisesStep =>
          LET r == Val(hist'[Len(hist')].raised) IN
          \A e \in ANALYZER_TAGS \ {r.by} :
              /\ e \in PassHooks =>
                    /\ an'[e] = finish_game(e, an[e], game_data)
                    /\ finish_game_returns(e, an[e], game_data)
                          => e \in game_findings'
              /\ r.context.move_number = game_data.n =>
                    an'[e] = finish_game(e,
                                 IF e \in active_analyzers
                                 THEN process_move(e, an[e], r.context)
                                 ELSE an[e],
                                 game_data) ]_vars

(* C23: for every scored game, the breakdown built by the scoring step,   *)
(* which queries get_game_points after the finish hooks, holds hung-queen *)
(* points exactly when a hung-queen candidate was recorded for the game,  *)
(* and windmill points exactly when a windmill candidate was recorded for *)
(* it.                                                                     *)
C23_PointsIffCandidateRecorded ==
    pc # "replay" =>
        \A i \in 1..Len(an[BestGame].all_game_refs) :
            LET r == an[BestGame].all_game_refs[i] IN
            /\ (r.breakdown["hung_queen"] # 0)
                 = (r.game_data \in RefGames(an[HungQueen].all_hung_queen_refs))
            /\ (r.breakdown["windmill"] # 0)
                 = (r.game_data \in RefGames(an[Windmill].all_windmill_refs))

(* C24: with the scoring step run after every completed game, the best    *)
(* game of the scorer, whenever it is set, is a game the user won.        *)
C24_BestGameIsAWin ==
    IsSome(an[BestGame].best_game_ref) =>
        hist[Val(an[BestGame].best_game_ref).game_data].won

-----------------------------------------------------------------------------
\* the detector holds a potential sacrifice, of either path, raised at ply k
PendingOffer(s, k) ==
    \/ /\ IsSome(s.potential_sacrifice)
       /\ Val(s.potential_sacrifice).sacrifice_move_number = k
    \/ /\ IsSome(s.potential_check_sacrifice)
       /\ Val(s.potential_check_sacrifice).sacrifice_move_number = k

\* a step that records a sacrifice records one raised at a ply whose answer,
\* in the game in replay, landed on the queen's square
ConfirmedOnlyWhenAnswered ==
    LET s == an[QueenSacrifice]
        t == an'[QueenSacrifice]
    IN Len(t.all_sacrifice_refs) > Len(s.all_sacrifice_refs) =>
          /\ pc = "replay" /\ pc' = "replay"
          /\ Len(t.all_sacrifice_refs) = Len(s.all_sacrifice_refs) + 1
          /\ LET r == t.all_sacrifice_refs[Len(t.all_sacrifice_refs)] IN
             /\ r.game_data = Len(hist)
             /\ r.sacrifice_move_number \in hist'[Len(hist')].landed

\* the opponent's answer to a pending potential lands elsewhere: the
\* potential is gone after the step and nothing is recorded
DiscardedWhenUnanswered ==
    LET s == an[QueenSacrifice]
        t == an'[QueenSacrifice]
    IN ( /\ pc = "replay" /\ pc' = "replay" /\ move_number' = move_number + 1
         /\ IsSome(hist[Len(hist)].offer)
         /\ Val(hist[Len(hist)].offer).ply = move_number
         /\ PendingOffer(s, move_number)
         /\ move_number \notin hist'[Len(hist')].landed )
       => /\ ~PendingOffer(t, move_number)
          /\ t.all_sacrifice_refs = s.all_sacrifice_refs

(* C25: a potential queen sacrifice raised at ply k is confirmed only if   *)
(* the opponent's move at ply k+1 lands on the queen's square; any other   *)
(* reply at ply k+1 discards the potential, and no sacrifice is recorded   *)
(* from it later in the game: every recorded sacrifice names a ply whose   *)
(* answer landed on the queen's square.                                    *)
C25_UnansweredOfferIsDiscarded ==
    [][ConfirmedOnlyWhenAnswered /\ DiscardedWhenUnanswered]_vars

\* an offer of the game in replay was answered elsewhere and dropped, after
\* an earlier game's offer was taken and recorded
C25_Witness ==
    /\ QueenSacrificeRuns /\ an[QueenSacrifice].user_won
    /\ IsSome(hist[Len(hist)].offer)
    /\ Val(hist[Len(hist)].offer).ply + 1 = move_number
    /\ Val(hist[Len(hist)].offer).ply \notin hist[Len(hist)].landed
    /\ ~PendingOffer(an[QueenSacrifice], move_number - 1)
    /\ Len(an[QueenSacrifice].all_sacrifice_refs) = 1

-----------------------------------------------------------------------------
\* the potential sacrifice, of either path, that the detector holds for ply k
OfferAt(s, k) ==
    IF /\ IsSome(s.potential_sacrifice)
       /\ Val(s.potential_sacrifice).sacrifice_move_number = k
    THEN Val(s.potential_sacrifice)
    ELSE Val(s.potential_check_sacrifice)

\* the step replays the user's move at ply k+2, where the detector holds the
\* potential raised at ply k and the opponent's move at ply k+1 took the queen
UserMoveAfterQueenTaken ==
    /\ pc = "replay" /\ pc' = "replay" /\ move_number' = move_number + 1
    /\ move_number >= 2
    /\ (move_number - 1) \in hist[Len(hist)].landed
    /\ hist[Len(hist)].took # "-"
    /\ PendingOffer(an[QueenSacrifice], move_number - 1)

\* the step appends the sacrifice of ply k of the game in replay
RecordsSacrificeOf(k) ==
    LET s == an[QueenSacrifice]
        t == an'[QueenSacrifice]
    IN /\ Len(t.all_sacrifice_refs) = Len(s.all_sacrifice_refs) + 1
       /\ LET r == t.all_sacrifice_refs[Len(t.all_sacrifice_refs)] IN
          r.game_data = Len(hist) /\ r.sacrifice_move_number = k

(* C26: after the opponent captures the user's queen at ply k+1, the       *)
(* sacrifice raised at ply k is recorded if and only if the user's move at *)
(* ply k+2 does not capture the opponent's queen and neither the material  *)
(* advantage nor the pin exclusion applies; when the move at ply k+2       *)
(* captures the opponent's queen the potential is cleared and nothing is   *)
(* recorded.                                                               *)
C26_RecordedIffQueenNotTakenBack ==
    [][ UserMoveAfterQueenTaken =>
          LET k == move_number - 1
              p == OfferAt(an[QueenSacrifice], k)
              takes_queen == hist'[Len(hist')].took = "Q"
          IN /\ RecordsSacrificeOf(k) <=>
                   (~takes_queen /\ p.g_adv < 5 /\ ~p.g_pinned)
             /\ takes_queen =>
                   /\ ~PendingOffer(an'[QueenSacrifice], k)
                   /\ an'[QueenSacrifice].all_sacrifice_refs
                        = an[QueenSacrifice].all_sacrifice_refs ]_vars

\* the same, for the steps at which the user's move at ply k+2 is not a
\* capture made by a queen
RecordedUnlessQueenCapturesAgain ==
    [][ ( /\ UserMoveAfterQueenTaken
          /\ hist'[Len(hist')].offer = hist[Len(hist)].offer
          /\ (move_number + 1) \notin hist'[Len(hist')].qxq ) =>
          LET k == move_number - 1
              p == OfferAt(an[QueenSacrifice], k)
              takes_queen == hist'[Len(hist')].took = "Q"
          IN /\ RecordsSacrificeOf(k) <=>
                   (~takes_queen /\ p.g_adv < 5 /\ ~p.g_pinned)
             /\ takes_queen =>
                   /\ ~PendingOffer(an'[QueenSacrifice], k)
                   /\ an'[QueenSacrifice].all_sacrifice_refs
                        = an[QueenSacrifice].all_sacrifice_refs ]_vars

-----------------------------------------------------------------------------
\* square x lies strictly between squares a and b on a file or rank
\* (straight) or on a diagonal (~straight)
StrictlyBetween(x, a, b, straight) ==
    LET df == square_file(b) - square_file(a)
        dr == square_rank(b) - square_rank(a)
        sf == IF df > 0 THEN 1 ELSE IF df < 0 THEN -1 ELSE 0
        sr == IF dr > 0 THEN 1 ELSE IF dr < 0 THEN -1 ELSE 0
        d == Max(Abs(df), Abs(dr))
    IN /\ IF straight THEN (df = 0) # (dr = 0) ELSE df # 0 /\ Abs(df) = Abs(dr)
       /\ \E i \in 1..(d - 1) :
             /\ square_file(x) = square_file(a) + i * sf
             /\ square_rank(x) = square_rank(a) + i * sr

\* the step replays a capture of the user's queen, in a lost game, by a rook
\* (bishop) whose origin square lies strictly between the user's king and
\* queen on their common file or rank (diagonal), no other piece standing
\* between them
PinnedQueenTaken ==
    LET s == an[HungQueen]
        m == Val(hist'[Len(hist')].played)
        king == s.user_king_square
        queen == s.user_queen_square
    IN /\ pc = "replay" /\ pc' = "replay" /\ move_number' = move_number + 1
       /\ game_data.watch /\ UserLost(game_data)
       /\ (move_number + 1) % 2 = (IF user_is_white_of(game_data) THEN 0 ELSE 1)
       /\ king # "" /\ queen # ""
       /\ m.capture /\ m.to = queen /\ m.piece \in {"R", "B"}
       /\ StrictlyBetween(m.from, king, queen, m.piece = "R")
       /\ \A sq \in m.board \ {m.from} :
             ~StrictlyBetween(sq, king, queen, m.piece = "R")

-----------------------------------------------------------------------------
\* the step appends a hung-queen candidate
RecordsHungQueen ==
    Len(an'[HungQueen].all_hung_queen_refs)
        > Len(an[HungQueen].all_hung_queen_refs)

(* C28: every hung-queen candidate comes from a game the user lost and     *)
(* from an opponent capture on the tracked queen square such that the      *)
(* capturing piece was not a queen, the opponent's preceding move did not  *)
(* give check, the user's queen had not arrived on that square on the      *)
(* user's immediately preceding move, and the opponent's queen was still   *)
(* tracked as on the board.                                                *)
C28_HungQueenCandidatesPassExclusions ==
    [][ RecordsHungQueen =>
          LET s == an[HungQueen]
              t == an'[HungQueen]
              r == t.all_hung_queen_refs[Len(t.all_hung_queen_refs)]
              h == hist[Len(hist)]
              m == Val(hist'[Len(hist')].played)
          IN /\ pc = "replay" /\ pc' = "replay"
             /\ move_number' = move_number + 1
             /\ t.all_hung_queen_refs = Append(s.all_hung_queen_refs, r)
             /\ r.game_data = Len(hist) /\ r.half_move_number = move_number'
             /\ UserLost(game_data)
             /\ (move_number' % 2 = 1) # user_is_white_of(game_data)
             /\ m.capture /\ s.user_queen_square # ""
             /\ m.to = s.user_queen_square
             /\ m.piece # "Q"
             /\ ~h.checked
             /\ h.arrived # m.to
             /\ s.opponent_queen_square # "" ]_vars

\* a candidate recorded at ply 5 of a lost game, in a batch that also holds
\* a game without candidate
C28_Witness ==
    /\ pc = "replay" /\ Len(hist) = 2 /\ move_number = 5
    /\ \E i \in 1..Len(an[HungQueen].all_hung_queen_refs) :
         /\ an[HungQueen].all_hung_queen_refs[i].game_data = 2
         /\ an[HungQueen].all_hung_queen_refs[i].half_move_number = 5
    /\ Len(an[HungQueen].all_hung_queen_refs) = 1

-----------------------------------------------------------------------------
\* no two candidates of the accumulator come from the same game
OnePerGame(refs) ==
    \A i, j \in 1..Len(refs) : i < j => refs[i].game_data # refs[j].game_data

(* C29: each of the queen-sacrifice, knight-fork, hung-queen and windmill  *)
(* detectors appends at most one candidate per game to its accumulator,    *)
(* whatever the moves, a windmill run still open at the end of the game    *)
(* included.                                                               *)
C29_AtMostOneCandidatePerGame ==
    /\ OnePerGame(an[QueenSacrifice].all_sacrifice_refs)
    /\ OnePerGame(an[KnightFork].all_fork_refs)
    /\ OnePerGame(an[HungQueen].all_hung_queen_refs)
    /\ OnePerGame(an[Windmill].all_windmill_refs)

\* the first game left one sacrifice and one fork; in the second the
\* windmill was recorded and the rook has since given check with capture
\* up to the last ply, without a second candidate
C29_Witness ==
    /\ Len(hist) = 2 /\ pc = "replay" /\ move_number = RepeatLast
    /\ hist[1].outcome = "completed"
    /\ Len(an[KnightFork].all_fork_refs) = 1
    /\ Len(an[QueenSacrifice].all_sacrifice_refs) = 1
    /\ an[Windmill].windmill_found /\ hist[2].took = "P"
    /\ Len(an[Windmill].all_windmill_refs) = 1

-----------------------------------------------------------------------------
\* the step on which the replayed game is finished
GameFinishes ==
    /\ pc = "replay" /\ pc' = "idle"
    /\ hist'[Len(hist')].outcome = "completed"

\* the text of the last move of the game is 'O-O#' or 'O-O-O#'
EndsWithCastlingMate(g) ==
    \/ g.last.piece = "O-O" /\ g.tail = "O-O#"
    \/ g.last.piece = "O-O-O" /\ g.tail = "O-O-O#"

\* the castle-mate accumulator gains a candidate on this step, or is left
\* as it was
CastleMateRecorded ==
    /\ Len(an'[CastleMate].all_castle_mates)
           = Len(an[CastleMate].all_castle_mates) + 1
    /\ SubSeq(an'[CastleMate].all_castle_mates, 1,
              Len(an[CastleMate].all_castle_mates))
           = an[CastleMate].all_castle_mates

(* C30: the castle-mate detector records a candidate for every game the    *)
(* user won whose final move text is 'O-O#' or 'O-O-O#', and for no other  *)
(* game.                                                                   *)
C30_CastleMateRecordedIffWonByCastling ==
    [][GameFinishes =>
         IF UserWon(game_data) /\ EndsWithCastlingMate(game_data)
         THEN CastleMateRecorded
         ELSE an'[CastleMate].all_castle_mates
                  = an[CastleMate].all_castle_mates]_vars

\* what the code does: the candidate is recorded when, besides, the
\* Termination header is missing or holds the word checkmate
CastleMateRecordedIffTerminationAllows ==
    [][GameFinishes =>
         IF /\ UserWon(game_data) /\ EndsWithCastlingMate(game_data)
            /\ game_data.term \in {"none", "checkmate"}
         THEN CastleMateRecorded
         ELSE an'[CastleMate].all_castle_mates
                  = an[CastleMate].all_castle_mates]_vars

-----------------------------------------------------------------------------
(* C31: the smothered mate returned by the selection has the smallest      *)
(* mating ply of all smothered mates recorded in the batch, whatever the   *)
(* order of the games.                                                     *)
C31_SmotheredSelectionIsEarliest ==
    (pc = "select" /\ IsSome(results[SmotheredMate])
        /\ Val(results[SmotheredMate]) # <<>>) =>
       \A i \in 1..Len(an[SmotheredMate].all_findings) :
           Val(results[SmotheredMate])[1].final_move_number
               <= an[SmotheredMate].all_findings[i].final_move_number

\* what the code does: the smothered mate of the game ingested first
SmotheredSelectionIsFirstIngested ==
    (pc = "select" /\ IsSome(results[SmotheredMate])
        /\ Val(results[SmotheredMate]) # <<>>) =>
       \A i \in 1..Len(an[SmotheredMate].all_findings) :
           Val(results[SmotheredMate])[1].game_data
               <= an[SmotheredMate].all_findings[i].game_data

-----------------------------------------------------------------------------
\* the games that carry the tag of detector d after the batch
Tagged(d) == { p[1] : p \in { q \in build_game_tags_map(an) : q[2] = d } }

(* C32: after a batch, a game has a detector's tag if and only if that     *)
(* detector holds a finding or candidate for the game: so for smothered    *)
(* mate, king mate, knight fork, windmill and pawn mate, and the Best Game *)
(* tag goes to the selected best game only.                                *)
C32_TagIffRecorded ==
    BatchDone =>
        /\ \A d \in {SmotheredMate, KingMate, KnightFork, Windmill, PawnMate} :
               Tagged(d) = CandidateGames(d)
        /\ Tagged(BestGame) = OptGame(an[BestGame].best_game_ref)

\* what the code does: a tag goes only to games the detector holds a
\* candidate or a stored score for
TagsOnlyWhereRecorded ==
    BatchDone => \A d \in ANALYZER_TAGS : Tagged(d) \subseteq CandidateGames(d)

\* a game with a recorded smothered mate has no Smothered Mate tag
SmotheredMateUntagged ==
    /\ BatchDone /\ an[SmotheredMate].all_findings # <<>>
    /\ Tagged(SmotheredMate) = {}

\* two scored games both carry the Best Game tag
BestGameTagOnEveryScoredGame ==
    BatchDone /\ Cardinality(Tagged(BestGame)) = 2

-----------------------------------------------------------------------------
(* C33: for every stored game score, total_points is the sum of the values *)
(* of the game's breakdown, after every scoring step and after every       *)
(* fallback rescoring pass.                                                *)
C33_TotalIsSumOfBreakdown ==
    \A i \in 1..Len(an[BestGame].all_game_refs) :
        an[BestGame].all_game_refs[i].total_points
            = SumOf(an[BestGame].all_game_refs[i].breakdown, BreakdownKeys)

\* two games are stored and rescored with the fallback table; one of them
\* has a bonus and a penalty in its breakdown and a total that is not 0
C33_Witness ==
    LET s == an[BestGame] IN
    /\ pc = "idle" /\ s.config = FallbackConfig
    /\ Len(s.all_game_refs) = 2
    /\ \E i \in 1..2 :
          /\ \E k \in BreakdownKeys : s.all_game_refs[i].breakdown[k] > 0
          /\ \E k \in BreakdownKeys : s.all_game_refs[i].breakdown[k] < 0
          /\ s.all_game_refs[i].total_points # 0

-----------------------------------------------------------------------------
\* this step is a call of rescore_with_fallback_config with fallback table f
RescoredWith(f) ==
    /\ pc = "idle" /\ pc' = "idle" /\ hist' = hist
    /\ an' = [an EXCEPT ![BestGame] =
                 BestGame_rescore_with_fallback_config(@, Some(f))]

(* C34: the fallback rescoring pass is idempotent: a second pass with the  *)
(* same fallback table right after the first leaves every stored total,    *)
(* every breakdown and the best game as the first pass left them, whatever *)
(* the signs of the original entry and of the fallback value (zero and     *)
(* negative fallback values included).                                     *)
C34_RescoreIsIdempotent ==
    [][ \A f \in FallbackTables :
          RescoredWith(f) =>
             LET again == BestGame_rescore_with_fallback_config(
                              an'[BestGame], Some(f))
             IN /\ again.all_game_refs = an'[BestGame].all_game_refs
                /\ again.best_game_ref = an'[BestGame].best_game_ref
                /\ again.best_game_score = an'[BestGame].best_game_score ]_vars

\* two games scored under the tuned table were rescored with the negative
\* fallback table: a bonus and a penalty both became the negative value
C34_Witness ==
    LET s == an[BestGame] IN
    /\ pc = "idle" /\ s.config = NegativeFallback
    /\ Len(s.all_game_refs) = 2
    /\ \E i \in 1..2 : s.all_game_refs[i].breakdown["smothered_mate"] = -5
    /\ \E i \in 1..2 : s.all_game_refs[i].breakdown["checkmate_win"] = -40
    /\ IsSome(s.best_game_ref)

-----------------------------------------------------------------------------
\* this step is a call of rescore_with_fallback_config, the fallback file
\* absent (None) or holding a table
RescoreCall(fallback) ==
    /\ pc = "idle" /\ pc' = "idle" /\ hist' = hist
    /\ an' = [an EXCEPT ![BestGame] =
                 BestGame_rescore_with_fallback_config(@, fallback)]

\* the user's average rating is set and below the threshold of the table
RatingBelowThreshold(s, f) ==
    IsSome(s.user_average_elo)
        /\ Val(s.user_average_elo) < FallbackThreshold(f)

(* C35: when the fallback table is absent, or the user's average rating is *)
(* set and below the fallback threshold, rescore_with_fallback_config      *)
(* leaves the best game, the best score, every stored total and breakdown  *)
(* and the active configuration unchanged.                                 *)
C35_RescoreSkippedLeavesScorerUnchanged ==
    [][ /\ RescoreCall(None) => an'[BestGame] = an[BestGame]
        /\ \A f \in FallbackTables :
              RescoreCall(Some(f)) /\ RatingBelowThreshold(an[BestGame], f)
                  => an'[BestGame] = an[BestGame] ]_vars

\* two games are stored for a user rated below the threshold of the
\* fallback table: the pass leaves the scorer as it is, and would change it
\* for the same batch of a user without a rating
C35_Witness ==
    LET s == an[BestGame]
        unrated == [s EXCEPT !.user_average_elo = None]
    IN /\ pc = "idle" /\ Len(s.all_game_refs) = 2
       /\ RatingBelowThreshold(s, FallbackConfig)
       /\ ~RatingBelowThreshold(s, LowThresholdFallback)
       /\ s.config \in ScorerConfigs
       /\ BestGame_rescore_with_fallback_config(s, Some(FallbackConfig)) = s
       /\ BestGame_rescore_with_fallback_config(unrated, Some(FallbackConfig))
             .all_game_refs # s.all_game_refs

-----------------------------------------------------------------------------
\* the thresholds of the table whose boundary is strictly greater than m
Exceeding(table, m) == { t \in Range(table) : t.moves > m }

\* this step scores the game replayed, which the user won
ScoresWonGame ==
    /\ pc = "replay" /\ pc' = "idle" /\ UserWon(game_data)
    /\ Len(an'[BestGame].all_game_refs) = Len(an[BestGame].all_game_refs) + 1

(* C36: for a won game of m full moves the game-length entry of the score  *)
(* is the points of the threshold with the smallest boundary strictly      *)
(* greater than m, whatever the order of the thresholds in the table; when *)
(* no boundary exceeds m there is no game-length entry.                    *)
C36_GameLengthEntryIsSmallestExceedingBoundary ==
    [][ ScoresWonGame =>
          LET m == (game_data.n + 1) \div 2
              over == Exceeding(an[BestGame].config.game_ends_before_moves, m)
              entry == Last(an'[BestGame].all_game_refs).breakdown["game_speed"]
          IN IF over = {} THEN entry = 0
             ELSE \E t \in over :
                     /\ \A u \in over : t.moves <= u.moves
                     /\ entry = t.points ]_vars

\* under the table given in descending order, a won game of 1 full move got
\* the points of boundary 2 and a won game of 2 full moves those of boundary
\* 3
C36_Witness ==
    LET s == an[BestGame] IN
    /\ pc = "idle" /\ Len(s.all_game_refs) = 2
    /\ Len(s.config.game_ends_before_moves) = 3
    /\ s.config.game_ends_before_moves[1].moves = 3
    /\ s.all_game_refs[1].breakdown["game_speed"] = -10
    /\ s.all_game_refs[2].breakdown["game_speed"] = 5

-----------------------------------------------------------------------------
\* the value of an attacked piece in pawn units
ForkValue(piece) ==
    CASE piece = "P" -> 1 [] piece = "N" -> 3 [] piece = "B" -> 3
      [] piece = "R" -> 5 [] piece = "Q" -> 9 [] piece = "K" -> 100

RECURSIVE ForkSum(_, _)
ForkSum(pieces, i) ==
    IF i > Len(pieces) THEN 0
    ELSE ForkValue(pieces[i]) + ForkSum(pieces, i + 1)

\* the game is one the fork detector looks into: won by the user, not on
\* time, the user rated 600 or more or not rated
ForkEligible(g) == UserWon(g) /\ g.term # "time" /\ ~g.elo_low

(* C37: in a game eligible for fork detection, the first user knight move  *)
(* after which the knight attacks at least 2 opponent pieces whose values  *)
(* (pawn 1, knight 3, bishop 3, rook 5, queen 9, king 100) sum to at least *)
(* 8 is recorded as a knight fork, and a knight move attacking fewer than  *)
(* 2 pieces or pieces summing to 7 or less is not; the recorded fork is    *)
(* flagged royal if and only if the king is among the attacked pieces.     *)
C37_FirstQualifyingKnightMoveIsRecorded ==
    [][ (/\ pc = "replay" /\ move_number' = move_number + 1
         /\ game_data.watch /\ ForkEligible(game_data)) =>
          LET m == Val(hist'[Len(hist)].played)
              k == move_number'
              own == (k % 2 = 1) = (game_data.side = "white")
              refs == an[KnightFork].all_fork_refs
              after == an'[KnightFork].all_fork_refs
              first == \A i \in 1..Len(refs) : refs[i].game_data # Len(hist)
              forks == Len(m.fork) >= 2 /\ ForkSum(m.fork, 1) >= 8
          IN IF own /\ m.piece = "N" /\ forks /\ first
             THEN /\ Len(after) = Len(refs) + 1
                  /\ SubSeq(after, 1, Len(refs)) = refs
                  /\ Last(after).game_data = Len(hist)
                  /\ Last(after).fork_move_number = k
                  /\ Last(after).is_royal_fork
                       = (\E i \in 1..Len(m.fork) : m.fork[i] = "K")
             ELSE m.piece = "N" /\ ~forks => after = refs ]_vars

\* the user's knight attacked a rook and a knight on one move and a king
\* and a pawn on its next: the first of these moves is the fork recorded,
\* and it is not royal
C37_Witness ==
    /\ Len(hist) = 1 /\ pc = "replay" /\ move_number = ForkLen
    /\ game_data.side = "white" /\ ForkEligible(game_data)
    /\ hist[1].played = Some([QuietMove EXCEPT !.piece = "N",
                                               !.fork = <<"K", "P">>])
    /\ Len(an[KnightFork].all_fork_refs) = 1
    /\ an[KnightFork].all_fork_refs[1].fork_move_number = ForkLen - 2
    /\ an[KnightFork].all_fork_refs[1].total_value = 8
    /\ ~an[KnightFork].all_fork_refs[1].is_royal_fork

-----------------------------------------------------------------------------
\* the process_move calls detector d has received in the game replayed
Received(d) == hist[Len(hist)].received[d]

(* C38: for every game replayed to completion, each active detector        *)
(* receives exactly one process_move call per ply, in ply order with       *)
(* 1-based ply numbers, every active detector seeing the same move and the *)
(* same board state before that move is played; a detector deactivated by  *)
(* the pre-filters receives no process_move call for that game.            *)
C38_OneCallPerPlyForActiveDetectors ==
    (pc = "replay" /\ game_data.log) =>
        /\ \A d \in active_analyzers :
              /\ Len(Received(d)) = move_number
              /\ \A k \in 1..move_number :
                    /\ Received(d)[k].context.move_number = k
                    /\ Received(d)[k].pushed = k - 1
              /\ \A e \in active_analyzers : Received(e) = Received(d)
        /\ \A d \in ANALYZER_TAGS \ active_analyzers : Received(d) = <<>>

\* a game won without mate has been replayed to its last ply: the queen
\* sacrifice detector has received every ply, the smothered mate and the
\* stalemate detectors none
C38_Witness ==
    /\ pc = "replay" /\ game_data.log /\ move_number = game_data.n
    /\ move_number >= 3
    /\ QueenSacrifice \in active_analyzers
    /\ SmotheredMate \notin active_analyzers
    /\ Stalemate \notin active_analyzers
    /\ Len(Received(QueenSacrifice)) = game_data.n
    /\ Received(QueenSacrifice)[2].context.move.piece = "N"
    /\ Received(SmotheredMate) = <<>>

=============================================================================
